---- MODULE Spec2Model ----
(***************************************************************************)
(* Release build pipeline of build-scripts/build.py, as a state machine.   *)
(*                                                                         *)
(* One behaviour is a sequence of runs of the script on one machine with   *)
(* one configuration blob (sys.argv[1]).  The working tree (fs, dmg_image, *)
(* sha_text) survives from one run to the next; everything else is the     *)
(* state of the running Python process.  pc is the statement the process   *)
(* executes next; an uncaught exception ends the process with status 1.    *)
(***************************************************************************)
EXTENDS Naturals, Sequences, FiniteSets, TLC

VARIABLES
    platform,      \* util.IS_DARWIN / util.IS_LINUX of the machine
    build_args,    \* keys present in the JSON blob of sys.argv[1]
    pc,            \* statement executed next
    pkg,           \* argument `package` of the build_cargo_bin call in progress
    signing_data,  \* module variable signing_data: "unset", "None", "SigningData"
    features,      \* module variable features: "unset", "None", "gamma"
    fs,            \* paths that exist in the working tree
    dmg_image,     \* content of build/CodeWhisperer.dmg
    sha_text,      \* content of build/CodeWhisperer.dmg.sha256
    staging,       \* objects under s3://<output_bucket>/staging/
    log,           \* external calls and file operations of the current run
    exit,          \* exit status of the current run: "none", "0", "1"
    runs,          \* number of runs started so far
    is_headless,   \* argument is_headless of the linux_bundle call
    wait,          \* round trip to the signing service the client is blocked in
    requested_features, \* run_tests.py: args.features split at the commas
    test_suites,   \* run_tests.py: test_suites of main
    all_features,  \* run_tests.py: the features handed to run_tests_with_suites
    results,       \* run_tests.py: results of run_tests_with_suites
    pos,           \* run_tests.py: (suite, feature) pairs the loops have visited
    aws_env,       \* main.py: credential variables set in os.environ
    pane,          \* main.py: lines the tmux pane shows, oldest first
    qchat,         \* main.py: the qchat command: "not_started", "running", "finished"
    printed,       \* main.py: lines qchat has printed so far
    polls,         \* main.py: iterations of the polling loop started so far
    completed,     \* main.py: the loop broke with "Q CLI task completed successfully"
    model_id,      \* redux_cli.py: known_args.model, a sequence of characters
    environ,       \* redux_cli.py: os.environ, pairs <<name, value>>
    model_info,    \* redux_cli.py: model_info of run, <<>> for None
    child,         \* redux_cli.py: the Q CLI child: "not_started", "running", "ended"
    returncode,    \* redux_cli.py: result.returncode, "none" before the child ended
    saved          \* redux_cli.py: conversation files written

\* State of e2etests/run_tests.py.
RunnerState == <<requested_features, test_suites, all_features, results, pos>>

\* State of terminal-bench-test/main.py.
AgentState == <<aws_env, pane, qchat, printed, polls, completed>>

\* State of scripts/redux_cli.py.
ReduxState == <<model_id, environ, model_info, child, returncode, saved>>

\* State of the programs other than build-scripts/build.py.
NotBuild == <<RunnerState, AgentState, ReduxState>>

vars == <<platform, build_args, pc, pkg, signing_data, features, fs,
          dmg_image, sha_text, staging, log, exit, runs, is_headless, wait,
          NotBuild>>

\* run_tests.py has not been started.
RunnerIdle ==
    /\ requested_features = <<>>
    /\ test_suites = <<>>
    /\ all_features = <<>>
    /\ results = <<>>
    /\ pos = 0

\* perform_task has not been called.
AgentIdle ==
    /\ aws_env = {}
    /\ pane = <<>>
    /\ qchat = "not_started"
    /\ printed = 0
    /\ polls = 0
    /\ completed = FALSE

\* redux_cli.py has not been started.
ReduxIdle ==
    /\ model_id = <<>>
    /\ environ = {}
    /\ model_info = <<>>
    /\ child = "not_started"
    /\ returncode = "none"
    /\ saved = 0

NotBuildIdle == RunnerIdle /\ AgentIdle /\ ReduxIdle

\* Number of times the script is run on the same working tree.
MaxRuns == 2

Platforms == {"darwin", "linux", "other"}

Keys == {"signing_bucket", "signing_queue", "apple_id_secret",
         "aws_account_id", "signing_role_name", "gamma", "output_bucket"}

-----------------------------------------------------------------------------
\* Paths.  A path is a sequence of names; fs holds the files and the leaves
\* of directory trees.

OUTDIR == <<"build">>
dashboard_path == OUTDIR \o <<"dashboard">>
autocomplete_path == OUTDIR \o <<"autocomplete">>
input_method_app == <<"build", "CodeWhispererInputMethod.app">>
manifest_path == <<"fig_desktop", "manifest.json">>
tauri_config_path == <<"fig_desktop", "build-config.json">>
target_bundle == <<"target", "bundle", "codewhisperer_desktop.app">>
bundle_path == OUTDIR \o <<"CodeWhisperer.app">>
info_plist_path == bundle_path \o <<"Contents", "Info.plist">>
helpers_dir == bundle_path \o <<"Contents", "Helpers">>
theme_repo == OUTDIR \o <<"themes">>
dmg_spec_path == <<"bundle", "dmg", "spec.json">>
dmg_path == OUTDIR \o <<"CodeWhisperer.dmg">>

IsPrefix(d, p) == Len(d) <= Len(p) /\ SubSeq(p, 1, Len(d)) = d

\* The paths of files at or below d, relative to d.
Tree(files, d) == {SubSeq(p, Len(d) + 1, Len(p)) : p \in {q \in files : IsPrefix(d, q)}}

\* shutil.rmtree(d, ignore_errors=True) and Path.unlink(missing_ok=True)
rmtree(files, d) == {p \in files : ~IsPrefix(d, p)}

\* shutil.copytree(src, dst) on an existing src
copytree(files, src, dst) == files \cup {dst \o r : r \in Tree(files, src)}

Exists(files, d) == \E p \in files : IsPrefix(d, p)

\* The code signature and the stapled notarization ticket of a bundle.
CodeSignature == <<"Contents", "_CodeSignature">>
Ticket == <<"Contents", "CodeResources">>

\* No request to the signing service is outstanding.
Idle == [of |-> "-", at |-> "idle"]

NoImage == [exists |-> FALSE, app |-> {}, sig |-> "unsigned"]
NoText == [exists |-> FALSE, alg |-> "-", of |-> NoImage]

-----------------------------------------------------------------------------
\* The log of the current run.

Ev(op, arg, ok) == [op |-> op, arg |-> arg, feat |-> "-", ok |-> ok]
EvF(op, arg, feat, ok) == [op |-> op, arg |-> arg, feat |-> feat, ok |-> ok]

\* util.n(build_args, key): the key is present with a value
n(args, key) == key \in args

Init ==
    /\ platform \in Platforms
    /\ build_args \in SUBSET Keys
    /\ pc = "start"
    /\ pkg = "-"
    /\ signing_data = "unset"
    /\ features = "unset"
    /\ fs = {}
    /\ dmg_image = NoImage
    /\ sha_text = NoText
    /\ staging = [dmg |-> NoImage, sha |-> NoText, bins |-> {}]
    /\ log = <<>>
    /\ exit = "none"
    /\ runs = 1
    /\ is_headless = FALSE
    /\ wait = Idle
    /\ NotBuildIdle

\* An uncaught exception: the interpreter prints the traceback and exits 1.
Raise == pc' = "failed" /\ exit' = "1"

\* One logged step: it succeeds and leaves okfs, or raises and leaves failfs.
Step(op, arg, feat, ok, next, okfs, failfs) ==
    /\ log' = Append(log, EvF(op, arg, feat, ok))
    /\ IF ok THEN pc' = next /\ exit' = exit /\ fs' = okfs
             ELSE Raise /\ fs' = failfs

\* One step that calls an external tool through util.run_cmd: the tool exits 0
\* and the step's effect newfs is in place, or it exits non-zero and run_cmd
\* raises (subprocess.run with check=True).
run_cmd(op, arg, feat, next, newfs) ==
    \E ok \in BOOLEAN : Step(op, arg, feat, ok, next, newfs, fs)

\* A copy from an input of the source tree, which may be missing.
copy_input(op, arg, next, newfs, failfs) ==
    \E ok \in BOOLEAN : Step(op, arg, "-", ok, next, newfs, failfs)

-----------------------------------------------------------------------------
\* Module body, lines 410-447.

\* if n(build_args, "signing_bucket") and n(...) and n(...)
SigningRequested ==
    /\ n(build_args, "signing_bucket")
    /\ n(build_args, "signing_queue")
    /\ n(build_args, "apple_id_secret")

\* build_args["aws_account_id"] and build_args["signing_role_name"] are plain
\* subscripts: a missing key raises KeyError.
SigningDataKeyError ==
    SigningRequested /\ ~({"aws_account_id", "signing_role_name"} \subseteq build_args)

ParseBuildArgs ==
    /\ pc = "start"
    /\ IF SigningDataKeyError
       THEN /\ log' = Append(log, Ev("signing_data", "-", FALSE))
            /\ Raise
            /\ UNCHANGED <<signing_data, features>>
       ELSE /\ log' = Append(log, Ev("signing_data", "-", TRUE))
            /\ signing_data' = IF SigningRequested THEN "SigningData" ELSE "None"
            /\ features' = IF n(build_args, "gamma") THEN "gamma" ELSE "None"
            /\ pc' = "mkdir_outdir"
            /\ exit' = exit
    /\ UNCHANGED <<platform, build_args, pkg, fs, dmg_image, sha_text, staging, runs,
                   is_headless, wait, NotBuild>>

\* OUTDIR.mkdir(parents=True, exist_ok=True): nothing in it is removed.
MkdirOutdir ==
    /\ pc = "mkdir_outdir"
    /\ pc' = "pnpm_install"
    /\ log' = Append(log, Ev("mkdir", "OUTDIR", TRUE))
    /\ UNCHANGED <<platform, build_args, pkg, signing_data, features, fs,
                   dmg_image, sha_text, staging, exit, runs, is_headless, wait, NotBuild>>

\* What a step other than the module's first leaves alone.
Frame == UNCHANGED <<platform, build_args, signing_data, features, runs, is_headless, wait, NotBuild>>

\* What a step that only touches the file tree leaves alone as well.
FilesOnly == Frame /\ UNCHANGED <<pkg, dmg_image, sha_text, staging>>

build_npm_packages_install ==
    /\ pc = "pnpm_install"
    /\ run_cmd("pnpm_install", "-", "-", "pnpm_build", fs)
    /\ FilesOnly

build_npm_packages_build ==
    /\ pc = "pnpm_build"
    /\ run_cmd("pnpm_build", "-", "-", "copy_dashboard", fs)
    /\ FilesOnly

build_npm_packages_dashboard ==
    /\ pc = "copy_dashboard"
    /\ copy_input("copy_asset", "dashboard", "copy_autocomplete",
                  rmtree(fs, dashboard_path) \cup {dashboard_path \o <<"index.html">>},
                  rmtree(fs, dashboard_path))
    /\ FilesOnly

\* build_npm_packages followed at once by the compilation, the test gate left out.
build_npm_packages_autocomplete_no_gate ==
    /\ pc = "copy_autocomplete"
    /\ copy_input("copy_asset", "autocomplete", "build_cw_cli",
                  rmtree(fs, autocomplete_path) \cup {autocomplete_path \o <<"index.html">>},
                  rmtree(fs, autocomplete_path))
    /\ FilesOnly

build_npm_packages_autocomplete ==
    /\ pc = "copy_autocomplete"
    /\ copy_input("copy_asset", "autocomplete", "cargo_test",
                  rmtree(fs, autocomplete_path) \cup {autocomplete_path \o <<"index.html">>},
                  rmtree(fs, autocomplete_path))
    /\ FilesOnly

\* run_cargo_tests with one retry of a failed suite.
run_cargo_tests_retried ==
    /\ pc = "cargo_test"
    /\ \E ok \in BOOLEAN :
           /\ log' = Append(log, EvF("cargo_test", "-", features, ok))
           /\ IF ok THEN pc' = "build_cw_cli" /\ exit' = exit
              ELSE IF \E i \in DOMAIN log : log[i].op = "cargo_test"
                   THEN Raise
                   ELSE pc' = pc /\ exit' = exit
    /\ FilesOnly /\ UNCHANGED fs

\* run_cargo_tests with the failure of the suite caught and ignored.
run_cargo_tests_swallowed ==
    /\ pc = "cargo_test"
    /\ \E ok \in BOOLEAN : log' = Append(log, EvF("cargo_test", "-", features, ok))
    /\ pc' = "build_cw_cli"
    /\ Frame /\ UNCHANGED <<pkg, fs, dmg_image, sha_text, staging, exit>>

\* run_cargo_tests(features=features)
run_cargo_tests ==
    /\ pc = "cargo_test"
    /\ run_cmd("cargo_test", "-", features, "build_cw_cli", fs)
    /\ FilesOnly

-----------------------------------------------------------------------------
\* build_cargo_bin, called for cw_cli, figterm and fig_input_method.

output_name(package) ==
    CASE package = "cw_cli" -> "cw"
      [] package = "figterm" -> "cwterm"
      [] OTHER -> package

\* The path build_cargo_bin returns.
outpath(package) ==
    IF platform = "darwin"
    THEN OUTDIR \o <<output_name(package), "universal-apple-darwin">>
    ELSE OUTDIR \o <<output_name(package)>>

\* The features each call site passes: the module's for cw_cli and figterm,
\* none for fig_input_method (build_macos_ime).
FeaturesOf(package) == IF package = "fig_input_method" THEN "None" ELSE features

\* Where each call returns to.
ReturnOf(package) ==
    CASE package = "cw_cli" -> "build_figterm"
      [] package = "figterm" -> "platform_branch"
      [] package = "fig_input_method" -> "ime_copy_bin"

Call(at, package) ==
    /\ pc = at
    /\ pc' = "bcb_targets"
    /\ pkg' = package
    /\ Frame /\ UNCHANGED <<fs, dmg_image, sha_text, staging, log, exit>>

BuildCwCli == Call("build_cw_cli", "cw_cli")

BuildFigterm == Call("build_figterm", "figterm")

\* if IS_DARWIN ... elif IS_LINUX ... else: raise ValueError
build_cargo_bin_targets ==
    /\ pc = "bcb_targets"
    /\ Step("targets", pkg, "-", platform \in {"darwin", "linux"}, "bcb_cargo", fs, fs)
    /\ FilesOnly

\* targets = [...] (lines 58-61)
targets(plat) ==
    IF plat = "darwin" THEN {"x86_64-apple-darwin", "aarch64-apple-darwin"}
    ELSE {"x86_64-unknown-linux-gnu"}

\* f"target/{target}/release/{package}"
target_output(target, package) == <<"target", target, "release", package>>

\* cargo build exits 0 having written, for each target, the binary named after
\* the package, or none for a target on which the package has no such binary.
build_cargo_bin_cargo ==
    /\ pc = "bcb_cargo"
    /\ \E built \in SUBSET targets(platform) :
           run_cmd("cargo_build", pkg, FeaturesOf(pkg),
                   IF platform = "darwin" THEN "bcb_lipo" ELSE "bcb_copy",
                   fs \cup {target_output(t, pkg) : t \in built})
    /\ FilesOnly

\* The universal binary lipo writes: one slice per input file, replacing what
\* was at outpath.
lipo_create(files, package) ==
    rmtree(files, outpath(package))
        \cup {outpath(package) \o <<t>> :
                t \in {u \in targets(platform) : target_output(u, package) \in files}}

\* lipo exits non-zero when one of the input files it is given does not exist.
lipo_outcomes(files, package) ==
    IF \A t \in targets(platform) : target_output(t, package) \in files
    THEN BOOLEAN ELSE {FALSE}

\* The merge of whichever architectures happen to have been built.
build_cargo_bin_lipo_any ==
    /\ pc = "bcb_lipo"
    /\ run_cmd("lipo", pkg, "-", ReturnOf(pkg), lipo_create(fs, pkg))
    /\ pkg' = "-"
    /\ Frame /\ UNCHANGED <<dmg_image, sha_text, staging>>

\* lipo -create -output outpath target/<each target>/release/<package>
build_cargo_bin_lipo ==
    /\ pc = "bcb_lipo"
    /\ \E ok \in lipo_outcomes(fs, pkg) :
           Step("lipo", pkg, "-", ok, ReturnOf(pkg), lipo_create(fs, pkg), fs)
    /\ pkg' = "-"
    /\ Frame /\ UNCHANGED <<dmg_image, sha_text, staging>>

\* shutil.copy2(target_path, out_path)
build_cargo_bin_copy ==
    /\ pc = "bcb_copy"
    /\ Step("copy_bin", pkg, "-", target_output("x86_64-unknown-linux-gnu", pkg) \in fs,
            ReturnOf(pkg), fs \cup {outpath(pkg)}, fs)
    /\ pkg' = "-"
    /\ Frame /\ UNCHANGED <<dmg_image, sha_text, staging>>

\* if IS_DARWIN: ... elif IS_LINUX: ...
\* (the Linux branch never calls linux_bundle and builds no desktop binary)
PlatformBranch ==
    /\ pc = "platform_branch"
    /\ pc' = IF platform = "darwin" THEN "build_ime"
             ELSE IF n(build_args, "output_bucket") THEN "upload_cw" ELSE "end"
    /\ Frame /\ UNCHANGED <<pkg, fs, dmg_image, sha_text, staging, log, exit>>

-----------------------------------------------------------------------------
\* signing.py: sign_file, notarize_file and rebundle_dmg.  Each request is a
\* blocking round trip that ends in success or in an exception.

\* sign_file(file, signing_type, signing_data): the request names the file and
\* carries the SigningType.
sign_file(op, arg, signing_type, next, newfs) ==
    \E ok \in BOOLEAN : Step(op, arg, signing_type, ok, next, newfs, fs)

notarize_file(op, arg, next, newfs) ==
    \E ok \in BOOLEAN : Step(op, arg, "-", ok, next, newfs, fs)

\* The image appdmg or rebundle_dmg makes of the app bundle as it is now.
ImageOf(files) == [exists |-> TRUE, app |-> Tree(files, bundle_path), sig |-> "unsigned"]

-----------------------------------------------------------------------------
\* build_macos_ime, lines 165-190.

BuildImeBin == Call("build_ime", "fig_input_method")

build_macos_ime_bin ==
    /\ pc = "ime_copy_bin"
    /\ Step("ime_part", "bin", "-", TRUE, "ime_copy_plist",
            fs \cup {input_method_app \o <<"Contents", "MacOS", "fig_input_method">>}, fs)
    /\ FilesOnly

build_macos_ime_plist ==
    /\ pc = "ime_copy_plist"
    /\ copy_input("ime_part", "plist", "ime_copy_resources",
                  fs \cup {input_method_app \o <<"Contents", "Info.plist">>}, fs)
    /\ FilesOnly

\* The helper bundle sent to notarization without having been signed.
ImeSigningBranch_unsigned == IF signing_data = "SigningData" THEN "ime_notarize" ELSE "write_manifest"

\* The helper bundle never signed.
ImeSigningBranch_skipped == "write_manifest"

\* if signing_data: (line 185)
ImeSigningBranch == IF signing_data = "SigningData" THEN "ime_sign" ELSE "write_manifest"

\* The copy of the helper's resources with its error ignored.
build_macos_ime_resources_ignore_errors ==
    /\ pc = "ime_copy_resources"
    /\ \E ok \in BOOLEAN :
           /\ log' = Append(log, Ev("ime_part", "resources", ok))
           /\ fs' = IF ok THEN fs \cup {input_method_app \o <<"Contents", "Resources">>} ELSE fs
    /\ pc' = ImeSigningBranch
    /\ FilesOnly /\ UNCHANGED exit

build_macos_ime_resources ==
    /\ pc = "ime_copy_resources"
    /\ copy_input("ime_part", "resources", ImeSigningBranch,
                  fs \cup {input_method_app \o <<"Contents", "Resources">>}, fs)
    /\ FilesOnly

build_macos_ime_sign ==
    /\ pc = "ime_sign"
    /\ sign_file("sign", "ime", "IME", "ime_notarize", fs \cup {input_method_app \o CodeSignature})
    /\ FilesOnly

build_macos_ime_notarize ==
    /\ pc = "ime_notarize"
    /\ notarize_file("notarize", "ime", "write_manifest", fs \cup {input_method_app \o Ticket})
    /\ FilesOnly

-----------------------------------------------------------------------------
\* build_desktop_app, lines 222-261: the transient files and the packaging tool.

\* manifest_path.write_text(gen_manifest()): gen_manifest runs cargo metadata
\* (run_cmd_output) before anything is written.
build_desktop_app_manifest ==
    /\ pc = "write_manifest"
    /\ run_cmd("write_manifest", "-", "-", "write_tauri_config", fs \cup {manifest_path})
    /\ FilesOnly

build_desktop_app_tauri_config ==
    /\ pc = "write_tauri_config"
    /\ Step("write_tauri_config", "-", "-", TRUE, "cargo_tauri", fs \cup {tauri_config_path}, fs)
    /\ FilesOnly

\* run_cmd(cargo_tauri_args, cwd="fig_desktop", ...): no try/finally around it
build_desktop_app_cargo_tauri ==
    /\ pc = "cargo_tauri"
    /\ run_cmd("cargo_tauri", "-", features, "cleanup",
               rmtree(fs, target_bundle)
                   \cup {target_bundle \o <<"Contents", "MacOS", "codewhisperer_desktop">>,
                         target_bundle \o <<"Contents", "Info.plist">>})
    /\ FilesOnly

\* # clean up
build_desktop_app_cleanup ==
    /\ pc = "cleanup"
    /\ Step("cleanup", "-", "-", TRUE, "copy_bundle",
            rmtree(rmtree(fs, manifest_path), tauri_config_path), fs)
    /\ FilesOnly

\* The helper copied in right after the bundle, the metadata patches left out.
build_desktop_app_copy_bundle_unpatched ==
    /\ pc = "copy_bundle"
    /\ LET cleared == rmtree(fs, bundle_path)
       IN  Step("copy_bundle", "-", "-", Exists(cleared, target_bundle), "copy_helper",
                copytree(cleared, target_bundle, bundle_path), cleared)
    /\ FilesOnly

\* shutil.rmtree(bundle_path, ignore_errors=True); shutil.copytree(target_bundle, bundle_path)
build_desktop_app_copy_bundle ==
    /\ pc = "copy_bundle"
    /\ LET cleared == rmtree(fs, bundle_path)
       IN  Step("copy_bundle", "-", "-", Exists(cleared, target_bundle), "plist_display_name",
                copytree(cleared, target_bundle, bundle_path), cleared)
    /\ FilesOnly

-----------------------------------------------------------------------------
\* build_desktop_app, lines 263-323: metadata patches and embedded trees.
\* A key of Info.plist with its value is a leaf <<key, value>> below the
\* plist's path.

PlistKeys == {"CFBundleDisplayName", "CFBundleName", "LSUIElement", "CFBundleURLTypes"}

\* The value each command writes.
PatchValue(key) ==
    CASE key = "CFBundleDisplayName" -> "CodeWhisperer"
      [] key = "CFBundleName" -> "CodeWhisperer"
      [] key = "LSUIElement" -> "TRUE"
      [] key = "CFBundleURLTypes" -> "codewhisperer"

HasKey(files, key) == Exists(files, info_plist_path \o <<key>>)

\* defaults write <plist> <key> <value>: sets the key, replacing any value
defaults_write(files, key) ==
    rmtree(files, info_plist_path \o <<key>>) \cup {info_plist_path \o <<key, PatchValue(key)>>}

\* plutil -insert <key> -xml <value> <plist>: adds the key; it exits non-zero
\* when the key is already there (-replace is the form that overwrites)
plutil_insert(files, key) == files \cup {info_plist_path \o <<key, PatchValue(key)>>}

plutil_insert_outcomes(files, key) == IF HasKey(files, key) THEN {FALSE} ELSE BOOLEAN

build_desktop_app_display_name ==
    /\ pc = "plist_display_name"
    /\ run_cmd("plist", "CFBundleDisplayName", "-", "plist_bundle_name",
               defaults_write(fs, "CFBundleDisplayName"))
    /\ FilesOnly

build_desktop_app_bundle_name ==
    /\ pc = "plist_bundle_name"
    /\ run_cmd("plist", "CFBundleName", "-", "plist_agent", defaults_write(fs, "CFBundleName"))
    /\ FilesOnly

build_desktop_app_agent ==
    /\ pc = "plist_agent"
    /\ run_cmd("plist", "LSUIElement", "-", "plist_url", defaults_write(fs, "LSUIElement"))
    /\ FilesOnly

\* The plutil call with its exit status ignored.
build_desktop_app_url_types_unchecked ==
    /\ pc = "plist_url"
    /\ \E ok \in plutil_insert_outcomes(fs, "CFBundleURLTypes") :
           /\ log' = Append(log, Ev("plist", "CFBundleURLTypes", ok))
           /\ fs' = IF ok THEN plutil_insert(fs, "CFBundleURLTypes") ELSE fs
    /\ pc' = "copy_helper"
    /\ FilesOnly /\ UNCHANGED exit

build_desktop_app_url_types ==
    /\ pc = "plist_url"
    /\ \E ok \in plutil_insert_outcomes(fs, "CFBundleURLTypes") :
           Step("plist", "CFBundleURLTypes", "-", ok, "copy_helper",
                plutil_insert(fs, "CFBundleURLTypes"), fs)
    /\ FilesOnly

\* shutil.copytree(src, dst) without dirs_exist_ok: src must exist, dst must not
CanCopyTree(files, src, dst) == Exists(files, src) /\ ~Exists(files, dst)

\* The helper bundle left out of the parent.
build_desktop_app_copy_helper_left_out ==
    /\ pc = "copy_helper"
    /\ Step("copy_helper", "-", "-", Exists(fs, input_method_app), "clone_themes", fs, fs)
    /\ FilesOnly

build_desktop_app_copy_helper ==
    /\ pc = "copy_helper"
    /\ LET dst == helpers_dir \o <<"CodeWhispererInputMethod.app">>
       IN  Step("copy_helper", "-", "-", CanCopyTree(fs, input_method_app, dst), "clone_themes",
                copytree(fs, input_method_app, dst), fs)
    /\ FilesOnly

\* shutil.rmtree(theme_repo, ignore_errors=True); run_cmd(["git", "clone", ...])
build_desktop_app_clone_themes ==
    /\ pc = "clone_themes"
    /\ LET cleared == rmtree(fs, theme_repo)
       IN  \E ok \in BOOLEAN :
               Step("git_clone", "themes", "-", ok, "copy_themes",
                    cleared \cup {theme_repo \o <<"themes", "theme.json">>}, cleared)
    /\ FilesOnly

build_desktop_app_copy_themes ==
    /\ pc = "copy_themes"
    /\ LET src == theme_repo \o <<"themes">>
           dst == bundle_path \o <<"Contents", "Resources", "themes">>
       IN  Step("copy_resource", "themes", "-", CanCopyTree(fs, src, dst), "copy_npm_dashboard",
                copytree(fs, src, dst), fs)
    /\ FilesOnly

\* for package, path in npm_packages.items(): first "dashboard", then "autocomplete"
CopyNpmPackage(at, package, path, next) ==
    /\ pc = at
    /\ LET dst == bundle_path \o <<"Contents", "Resources", package>>
       IN  Step("copy_resource", package, "-", CanCopyTree(fs, path, dst), next,
                copytree(fs, path, dst), fs)
    /\ FilesOnly

build_desktop_app_copy_dashboard ==
    CopyNpmPackage("copy_npm_dashboard", "dashboard", dashboard_path, "copy_npm_autocomplete")

build_desktop_app_copy_autocomplete ==
    CopyNpmPackage("copy_npm_autocomplete", "autocomplete", autocomplete_path, "write_dmg_spec")

-----------------------------------------------------------------------------
\* build_desktop_app, lines 325-352: the disk image.

\* The signing of the app moved in front of the creation of the image.
build_desktop_app_dmg_spec_after_signing ==
    /\ pc = "write_dmg_spec"
    /\ Step("write_dmg_spec", "-", "-", TRUE,
            IF signing_data = "SigningData" THEN "sign_app" ELSE "unlink_dmg",
            fs \cup {dmg_spec_path}, fs)
    /\ FilesOnly

build_desktop_app_dmg_spec ==
    /\ pc = "write_dmg_spec"
    /\ Step("write_dmg_spec", "-", "-", TRUE, "unlink_dmg", fs \cup {dmg_spec_path}, fs)
    /\ FilesOnly

\* The image of an earlier run left where it is.
build_desktop_app_unlink_dmg_kept ==
    /\ pc = "unlink_dmg"
    /\ Step("unlink_dmg", "-", "-", TRUE, "appdmg", fs, fs)
    /\ Frame /\ UNCHANGED <<pkg, dmg_image, sha_text, staging>>

\* dmg_path.unlink(missing_ok=True)
build_desktop_app_unlink_dmg ==
    /\ pc = "unlink_dmg"
    /\ Step("unlink_dmg", "-", "-", TRUE, "appdmg", fs, fs)
    /\ dmg_image' = NoImage
    /\ Frame /\ UNCHANGED <<pkg, sha_text, staging>>

\* run_cmd(["pnpm", "appdmg", dmg_spec_path, dmg_path]): no try/finally around it
build_desktop_app_appdmg ==
    /\ pc = "appdmg"
    /\ run_cmd("appdmg", "-", "-", "unlink_dmg_spec", fs)
    /\ dmg_image' = IF pc' = "failed" THEN dmg_image ELSE ImageOf(fs)
    /\ Frame /\ UNCHANGED <<pkg, sha_text, staging>>

\* The signing step taken whatever signing_data is.
AppSigningBranch_always == "sign_app"

\* The signing step never taken.
AppSigningBranch_never == "generate_sha"

\* if signing_data: sign_and_rebundle_macos(...)  (lines 347-350)
AppSigningBranch == IF signing_data = "SigningData" THEN "sign_app" ELSE "generate_sha"

build_desktop_app_unlink_dmg_spec ==
    /\ pc = "unlink_dmg_spec"
    /\ Step("unlink_dmg_spec", "-", "-", TRUE, AppSigningBranch, rmtree(fs, dmg_spec_path), fs)
    /\ FilesOnly

-----------------------------------------------------------------------------
\* sign_and_rebundle_macos, lines 355-375.

sign_and_rebundle_macos_sign_app ==
    /\ pc = "sign_app"
    /\ sign_file("sign", "app", "APP", "notarize_app", fs \cup {bundle_path \o CodeSignature})
    /\ FilesOnly

\* sign_and_rebundle_macos without the rebundle: the image is signed as built.
sign_and_rebundle_macos_notarize_app_no_rebundle ==
    /\ pc = "notarize_app"
    /\ notarize_file("notarize", "app", "sign_dmg", fs \cup {bundle_path \o Ticket})
    /\ FilesOnly

sign_and_rebundle_macos_notarize_app ==
    /\ pc = "notarize_app"
    /\ notarize_file("notarize", "app", "rebundle_dmg", fs \cup {bundle_path \o Ticket})
    /\ FilesOnly

\* rebundle_dmg(app_path=app_path, dmg_path=dmg_path)
sign_and_rebundle_macos_rebundle ==
    /\ pc = "rebundle_dmg"
    /\ \E ok \in BOOLEAN : Step("rebundle", "dmg", "-", ok, "sign_dmg", fs, fs)
    /\ dmg_image' = IF pc' = "failed" THEN dmg_image ELSE ImageOf(fs)
    /\ Frame /\ UNCHANGED <<pkg, sha_text, staging>>

\* The image sent for signing as if it were an app bundle.
sign_and_rebundle_macos_sign_dmg_as_app ==
    /\ pc = "sign_dmg"
    /\ sign_file("sign", "dmg", "APP", "notarize_dmg", fs)
    /\ dmg_image' = IF pc' = "failed" THEN dmg_image ELSE [dmg_image EXCEPT !.sig = "signed"]
    /\ Frame /\ UNCHANGED <<pkg, sha_text, staging>>

sign_and_rebundle_macos_sign_dmg ==
    /\ pc = "sign_dmg"
    /\ sign_file("sign", "dmg", "DMG", "notarize_dmg", fs)
    /\ dmg_image' = IF pc' = "failed" THEN dmg_image ELSE [dmg_image EXCEPT !.sig = "signed"]
    /\ Frame /\ UNCHANGED <<pkg, sha_text, staging>>

sign_and_rebundle_macos_notarize_dmg ==
    /\ pc = "notarize_dmg"
    /\ notarize_file("notarize", "dmg", "generate_sha", fs)
    /\ dmg_image' = IF pc' = "failed" THEN dmg_image ELSE [dmg_image EXCEPT !.sig = "notarized"]
    /\ Frame /\ UNCHANGED <<pkg, sha_text, staging>>

-----------------------------------------------------------------------------
\* generate_sha and the publish steps, lines 402-407 and 459-473.

\* shasum -a 256: the digest of the image's bytes
Digest(image) == [exists |-> TRUE, alg |-> "sha256", of |-> image]

\* if n(build_args, "output_bucket"): (line 461)
UploadBranch == IF n(build_args, "output_bucket") THEN "upload_dmg" ELSE "end"

\* The digest taken of the image as it was before it was signed.
generate_sha_before_signing ==
    /\ pc = "generate_sha"
    /\ run_cmd("shasum", "dmg", "-", UploadBranch, fs)
    /\ sha_text' = IF pc' = "failed" THEN sha_text
                   ELSE Digest([dmg_image EXCEPT !.sig = "unsigned"])
    /\ Frame /\ UNCHANGED <<pkg, dmg_image, staging>>

generate_sha ==
    /\ pc = "generate_sha"
    /\ run_cmd("shasum", "dmg", "-", UploadBranch, fs)
    /\ sha_text' = IF pc' = "failed" THEN sha_text ELSE Digest(dmg_image)
    /\ Frame /\ UNCHANGED <<pkg, dmg_image, staging>>

\* The image uploaded and the sidecar forgotten.
UploadDmg_no_sidecar ==
    /\ pc = "upload_dmg"
    /\ run_cmd("s3_cp", "dmg", "-", "end", fs)
    /\ staging' = IF pc' = "failed" THEN staging ELSE [staging EXCEPT !.dmg = dmg_image]
    /\ Frame /\ UNCHANGED <<pkg, dmg_image, sha_text>>

\* The upload of the image with its failure ignored.
UploadDmg_unchecked ==
    /\ pc = "upload_dmg"
    /\ \E ok \in BOOLEAN :
           /\ log' = Append(log, Ev("s3_cp", "dmg", ok))
           /\ staging' = IF ok THEN [staging EXCEPT !.dmg = dmg_image] ELSE staging
    /\ pc' = "upload_sha"
    /\ Frame /\ UNCHANGED <<pkg, fs, dmg_image, sha_text, exit>>

UploadDmg ==
    /\ pc = "upload_dmg"
    /\ run_cmd("s3_cp", "dmg", "-", "upload_sha", fs)
    /\ staging' = IF pc' = "failed" THEN staging ELSE [staging EXCEPT !.dmg = dmg_image]
    /\ Frame /\ UNCHANGED <<pkg, dmg_image, sha_text>>

UploadSha ==
    /\ pc = "upload_sha"
    /\ run_cmd("s3_cp", "sha", "-", "end", fs)
    /\ staging' = IF pc' = "failed" THEN staging ELSE [staging EXCEPT !.sha = sha_text]
    /\ Frame /\ UNCHANGED <<pkg, dmg_image, sha_text>>

UploadCwCli ==
    /\ pc = "upload_cw"
    /\ run_cmd("s3_cp", "cw", "-", "upload_cwterm", fs)
    /\ staging' = IF pc' = "failed" THEN staging ELSE [staging EXCEPT !.bins = @ \cup {"cw"}]
    /\ Frame /\ UNCHANGED <<pkg, dmg_image, sha_text>>

UploadCwterm ==
    /\ pc = "upload_cwterm"
    /\ run_cmd("s3_cp", "cwterm", "-", "end", fs)
    /\ staging' = IF pc' = "failed" THEN staging ELSE [staging EXCEPT !.bins = @ \cup {"cwterm"}]
    /\ Frame /\ UNCHANGED <<pkg, dmg_image, sha_text>>

\* The module body ends: the interpreter exits 0.
ExitOk ==
    /\ pc = "end"
    /\ pc' = "done"
    /\ exit' = "0"
    /\ Frame /\ UNCHANGED <<pkg, fs, dmg_image, sha_text, staging, log>>

\* The script is started again with the same blob on the same working tree.
Rerun ==
    /\ pc \in {"done", "failed"}
    /\ runs < MaxRuns
    /\ runs' = runs + 1
    /\ pc' = "start"
    /\ pkg' = "-"
    /\ signing_data' = "unset"
    /\ features' = "unset"
    /\ log' = <<>>
    /\ exit' = "none"
    /\ UNCHANGED <<platform, build_args, fs, dmg_image, sha_text, staging, is_headless, wait, NotBuild>>

Next ==
    \/ ParseBuildArgs
    \/ MkdirOutdir
    \/ build_npm_packages_install
    \/ build_npm_packages_build
    \/ build_npm_packages_dashboard
    \/ build_npm_packages_autocomplete
    \/ run_cargo_tests
    \/ BuildCwCli
    \/ BuildFigterm
    \/ build_cargo_bin_targets
    \/ build_cargo_bin_cargo
    \/ build_cargo_bin_lipo
    \/ build_cargo_bin_copy
    \/ PlatformBranch
    \/ BuildImeBin
    \/ build_macos_ime_bin
    \/ build_macos_ime_plist
    \/ build_macos_ime_resources
    \/ build_macos_ime_sign
    \/ build_macos_ime_notarize
    \/ build_desktop_app_manifest
    \/ build_desktop_app_tauri_config
    \/ build_desktop_app_cargo_tauri
    \/ build_desktop_app_cleanup
    \/ build_desktop_app_copy_bundle
    \/ build_desktop_app_display_name
    \/ build_desktop_app_bundle_name
    \/ build_desktop_app_agent
    \/ build_desktop_app_url_types
    \/ build_desktop_app_copy_helper
    \/ build_desktop_app_clone_themes
    \/ build_desktop_app_copy_themes
    \/ build_desktop_app_copy_dashboard
    \/ build_desktop_app_copy_autocomplete
    \/ build_desktop_app_dmg_spec
    \/ build_desktop_app_unlink_dmg
    \/ build_desktop_app_appdmg
    \/ build_desktop_app_unlink_dmg_spec
    \/ sign_and_rebundle_macos_sign_app
    \/ sign_and_rebundle_macos_notarize_app
    \/ sign_and_rebundle_macos_rebundle
    \/ sign_and_rebundle_macos_sign_dmg
    \/ sign_and_rebundle_macos_notarize_dmg
    \/ generate_sha
    \/ UploadDmg
    \/ UploadSha
    \/ UploadCwCli
    \/ UploadCwterm
    \/ ExitOk
    \/ Rerun

Spec == Init /\ [][Next]_vars

-----------------------------------------------------------------------------
\* Reading the log of the current run.

Is(e, op, arg) == e.op = op /\ e.arg = arg

Attempted(op, arg) == \E i \in DOMAIN log : Is(log[i], op, arg)

Done(op, arg) == \E i \in DOMAIN log : Is(log[i], op, arg) /\ log[i].ok

Failed(op) == \E i \in DOMAIN log : log[i].op = op /\ ~log[i].ok

\* Every attempt of (op, arg) comes after a success of (op0, arg0).
After(op0, arg0, op, arg) ==
    \A i \in DOMAIN log :
        Is(log[i], op, arg) => \E j \in 1..(i - 1) : Is(log[j], op0, arg0) /\ log[j].ok

\* A failed step is the last thing the run did, and the run ended with status 1.
FailureIsFinal(i) == i = Len(log) /\ pc = "failed" /\ exit = "1"

SigningOps == {"sign", "notarize", "rebundle"}

\* The steps that write below OUTDIR.
OutdirWrites == {"copy_asset", "lipo", "copy_bin", "ime_part", "copy_bundle", "plist",
                 "copy_helper", "git_clone", "copy_resource", "appdmg", "rebundle",
                 "sign", "notarize", "shasum"}

\* linux_bundle, lines 378-399, on its own: the module body never calls it, so
\* it is run here from its first statement on working trees in which any of
\* its inputs may be missing and the icon directories may or may not exist.

Resolutions == <<16, 22, 24, 32, 48, 64, 128, 256, 512>>

\* f"{res}x{res}"
size(res) == ToString(res) \o "x" \o ToString(res)

icon_src(res) == <<"fig_desktop", "icons", size(res) \o ".png">>
icon_dir(res) == OUTDIR \o <<"usr", "share", "icons", "hicolor", size(res), "apps">>
icon_dst(res) == icon_dir(res) \o <<"fig.png">>

bin_path == OUTDIR \o <<"usr", "bin">>
cw_cli_path == OUTDIR \o <<"cw">>
cwterm_path == OUTDIR \o <<"cwterm">>
codewhisperer_desktop_path == <<"target", "x86_64-unknown-linux-gnu", "release", "codewhisperer_desktop">>

headless_overlay == <<"bundle", "linux", "headless">>
desktop_overlay == <<"bundle", "linux", "desktop">>
headless_file == <<"usr", "share", "headless.conf">>
desktop_file == <<"usr", "share", "applications", "fig.desktop">>

AllResolutions == {Resolutions[i] : i \in DOMAIN Resolutions}

Icons == {icon_src(res) : res \in AllResolutions}

HeadlessInputs == {cw_cli_path, cwterm_path, headless_overlay \o headless_file}

DesktopInputs == {codewhisperer_desktop_path, desktop_overlay \o desktop_file}

\* shutil.copy2(file, directory): the file lands in the directory under its name
copy2_into(files, file, dir) == files \cup {dir \o <<file[Len(file)]>>}

\* shutil.copytree(src, dst, dirs_exist_ok=True) on an existing src
copytree_onto(files, src, dst) == copytree(files, src, dst)

\* The tree linux_bundle lays out below build/: the binaries, the headless
\* overlay and, unless headless, the icons, the desktop overlay and the
\* desktop binary.
linux_bundle_tree(headless) ==
    {bin_path \o <<"cw">>, bin_path \o <<"cwterm">>, OUTDIR \o headless_file}
    \cup (IF headless THEN {}
          ELSE {icon_dst(res) : res \in AllResolutions}
                   \cup {OUTDIR \o desktop_file, bin_path \o <<"codewhisperer_desktop">>})

InitLinux ==
    /\ platform = "linux"
    /\ build_args = {}
    /\ pc = "lb_call"
    /\ pkg = "-"
    /\ signing_data = "None"
    /\ features = "None"
    /\ \E missing \in SUBSET (HeadlessInputs \cup DesktopInputs) :
       \E missing_icons \in {{}} \cup {{i} : i \in Icons} :
       \E existing \in {{}, {icon_dir(res) : res \in AllResolutions}} :
           fs = ((HeadlessInputs \cup DesktopInputs \cup Icons) \ (missing \cup missing_icons))
                    \cup existing
    /\ dmg_image = NoImage
    /\ sha_text = NoText
    /\ staging = [dmg |-> NoImage, sha |-> NoText, bins |-> {}]
    /\ log = <<>>
    /\ exit = "none"
    /\ runs = 1
    /\ is_headless \in BOOLEAN
    /\ wait = Idle
    /\ NotBuildIdle

\* if not is_headless: (line 384)
linux_bundle_call ==
    /\ pc = "lb_call"
    /\ pc' = IF is_headless THEN "lb_mkdir" ELSE "lb_icons"
    /\ FilesOnly /\ UNCHANGED <<fs, log, exit>>

icons_copied == Len(SelectSeq(log, LAMBDA e : e.op = "copy_icon"))

\* for res in [...]: shutil.copy2(icon, f"build/usr/share/icons/hicolor/{res}x{res}/apps/fig.png")
\* copy2 creates no directory: the icon's directory has to exist already.
linux_bundle_icon ==
    /\ pc = "lb_icons"
    /\ LET i == icons_copied + 1
           res == Resolutions[i]
       IN  Step("copy_icon", size(res), "-",
                icon_src(res) \in fs /\ Exists(fs, icon_dir(res)),
                IF i = Len(Resolutions) THEN "lb_mkdir" ELSE "lb_icons",
                fs \cup {icon_dst(res)}, fs)
    /\ FilesOnly

\* bin_path.mkdir(parents=True, exist_ok=True)
linux_bundle_mkdir ==
    /\ pc = "lb_mkdir"
    /\ Step("mkdir", "bin_path", "-", TRUE, "lb_copy_cw", fs \cup {bin_path}, fs)
    /\ FilesOnly

linux_bundle_copy_cw_cli ==
    /\ pc = "lb_copy_cw"
    /\ Step("copy_bin", "cw", "-", cw_cli_path \in fs, "lb_copy_cwterm",
            copy2_into(fs, cw_cli_path, bin_path), fs)
    /\ FilesOnly

linux_bundle_copy_cwterm ==
    /\ pc = "lb_copy_cwterm"
    /\ Step("copy_bin", "cwterm", "-", cwterm_path \in fs, "lb_headless",
            copy2_into(fs, cwterm_path, bin_path), fs)
    /\ FilesOnly

\* The desktop part laid out whatever is_headless is.
DesktopBranch_always == "lb_desktop"

\* if not is_headless: (line 397)
DesktopBranch == IF is_headless THEN "lb_return" ELSE "lb_desktop"

linux_bundle_headless_overlay ==
    /\ pc = "lb_headless"
    /\ Step("overlay", "headless", "-", Exists(fs, headless_overlay), DesktopBranch,
            copytree_onto(fs, headless_overlay, OUTDIR), fs)
    /\ FilesOnly

linux_bundle_desktop_overlay ==
    /\ pc = "lb_desktop"
    /\ Step("overlay", "desktop", "-", Exists(fs, desktop_overlay), "lb_copy_desktop",
            copytree_onto(fs, desktop_overlay, OUTDIR), fs)
    /\ FilesOnly

linux_bundle_copy_desktop ==
    /\ pc = "lb_copy_desktop"
    /\ Step("copy_bin", "codewhisperer_desktop", "-", codewhisperer_desktop_path \in fs,
            "lb_return", copy2_into(fs, codewhisperer_desktop_path, bin_path), fs)
    /\ FilesOnly

NextLinux ==
    \/ linux_bundle_call
    \/ linux_bundle_icon
    \/ linux_bundle_mkdir
    \/ linux_bundle_copy_cw_cli
    \/ linux_bundle_copy_cwterm
    \/ linux_bundle_headless_overlay
    \/ linux_bundle_desktop_overlay
    \/ linux_bundle_copy_desktop

LinuxSpec == InitLinux /\ [][NextLinux]_vars

-----------------------------------------------------------------------------
\* C1: once bundle assembly has finished, returned or raised, neither
\* fig_desktop/manifest.json nor fig_desktop/build-config.json exists.
\* The code removes them only on the path where cargo-tauri succeeded.
AssemblyLabels ==
    {"write_tauri_config", "cargo_tauri", "cleanup", "copy_bundle", "plist_display_name",
     "plist_bundle_name", "plist_agent", "plist_url", "copy_helper", "clone_themes",
     "copy_themes", "copy_npm_dashboard", "copy_npm_autocomplete"}

C1_TransientFilesGone ==
    (Done("write_manifest", "-") /\ pc \notin AssemblyLabels)
        => (manifest_path \notin fs /\ tauri_config_path \notin fs)

\* C2: with signing configured the five operations happen in the order
\* sign(app), notarize(app), rebundle, sign(dmg), notarize(dmg), each only
\* after the one before it succeeded, and a signed image is never one that
\* was built from the unsigned app.
SignChain == <<<<"sign", "app">>, <<"notarize", "app">>, <<"rebundle", "dmg">>,
               <<"sign", "dmg">>, <<"notarize", "dmg">>>>

InChain(e) == \E k \in DOMAIN SignChain : SignChain[k] = <<e.op, e.arg>>

ChainLog == SelectSeq(log, InChain)

C2_SignRebundleOrder ==
    /\ Len(ChainLog) <= Len(SignChain)
    /\ \A i \in DOMAIN ChainLog :
           /\ <<ChainLog[i].op, ChainLog[i].arg>> = SignChain[i]
           /\ i < Len(ChainLog) => ChainLog[i].ok
    /\ (platform = "darwin" /\ signing_data = "SigningData" /\ pc = "done")
           => (Len(ChainLog) = Len(SignChain) /\ ChainLog[Len(ChainLog)].ok)
    /\ dmg_image.sig # "unsigned"
           => (dmg_image.exists /\ {CodeSignature, Ticket} \subseteq dmg_image.app)
    /\ (signing_data = "SigningData" /\ Done("s3_cp", "dmg"))
           => {CodeSignature, Ticket} \subseteq staging.dmg.app

C2_Witness ==
    /\ platform = "darwin" /\ signing_data = "SigningData" /\ pc = "done"
    /\ dmg_image.sig = "notarized"
    /\ Done("s3_cp", "dmg")

\* C3 as stated: with a signing configuration, no artifact (disk image or
\* Linux binary) is uploaded unless it was signed and notarized.
Artifacts == {"dmg", "cw", "cwterm"}

C3_NoUnsignedUpload ==
    signing_data = "SigningData" =>
        \A i \in DOMAIN log :
            (log[i].op = "s3_cp" /\ log[i].arg \in Artifacts /\ log[i].ok)
                => \E j \in 1..(i - 1) : Is(log[j], "notarize", log[i].arg) /\ log[j].ok

\* C3 amended: with a signing configuration, the macOS disk image is uploaded
\* only after it was signed and notarized, what is uploaded is the notarized
\* image, and a failed signing or notarization request is the last step of the
\* run, with nothing uploaded.  (The Linux binaries are never signed.)
C3_SignedImageUpload ==
    signing_data = "SigningData" =>
        /\ After("sign", "dmg", "s3_cp", "dmg")
        /\ After("notarize", "dmg", "s3_cp", "dmg")
        /\ Done("s3_cp", "dmg") => staging.dmg.sig = "notarized"
        /\ \A i \in DOMAIN log :
               (log[i].op \in SigningOps /\ ~log[i].ok)
                   => (FailureIsFinal(i) /\ \A j \in DOMAIN log : log[j].op # "s3_cp")

C3_Witness ==
    platform = "darwin" /\ signing_data = "SigningData" /\ Done("s3_cp", "dmg")

\* C4: the app bundle is passed to the signing client iff a signing
\* configuration was supplied (and the run got that far); without one the run
\* issues no signing or notarization request and that is not an error.
AfterAppSigning ==
    {"notarize_app", "rebundle_dmg", "sign_dmg", "notarize_dmg", "generate_sha",
     "upload_dmg", "upload_sha", "end", "done"}

C4_SigningIffConfigured ==
    /\ Attempted("sign", "app") => signing_data = "SigningData"
    /\ (platform = "darwin" /\ signing_data = "SigningData" /\ pc \in AfterAppSigning)
           => Done("sign", "app")
    /\ signing_data # "SigningData" => \A i \in DOMAIN log : log[i].op \notin SigningOps
    /\ ~SigningRequested => ~Failed("signing_data")
    /\ (platform = "darwin" /\ signing_data = "None" /\ pc = "done")
           => (exit = "0" /\ dmg_image.exists /\ dmg_image.sig = "unsigned")

C4_Witness ==
    platform = "darwin" /\ signing_data = "SigningData" /\ Done("sign", "app") /\ pc = "notarize_app"

\* C5: a failed fatal step (compilation, tests, missing input, packaging tool,
\* metadata patch) is the last step of the run: nothing runs after it, nothing
\* has been or is uploaded, and the process ends with a non-zero status.
FatalOps == {"targets", "cargo_build", "lipo", "cargo_test", "pnpm_install", "pnpm_build",
             "copy_asset", "ime_part", "write_manifest", "cargo_tauri", "copy_bundle",
             "plist", "copy_helper", "git_clone", "copy_resource", "appdmg"}

C5_FatalFailureStops ==
    \A i \in DOMAIN log :
        (log[i].op \in FatalOps /\ ~log[i].ok)
            => (FailureIsFinal(i) /\ \A j \in DOMAIN log : log[j].op # "s3_cp")

C5_Witness == Failed("plist") /\ pc = "failed"

\* C6 as stated: when the test suite fails, this run has written nothing into
\* the output directory.
C6_NothingWrittenAtTestFailure ==
    Failed("cargo_test") =>
        \A i \in DOMAIN log : ~(log[i].op \in OutdirWrites /\ log[i].ok)

\* C6 amended: when the test suite fails the run ends there, and all this run
\* has written into the output directory are the two web asset trees that
\* build_npm_packages copied before the tests ran: no binary, bundle, image
\* or checksum.
C6_OnlyAssetsAtTestFailure ==
    \A i \in DOMAIN log :
        (log[i].op = "cargo_test" /\ ~log[i].ok) =>
            /\ FailureIsFinal(i)
            /\ \A j \in DOMAIN log :
                   (log[j].op \in OutdirWrites /\ log[j].ok) => log[j].op = "copy_asset"

C6_Witness == Failed("cargo_test") /\ Done("copy_asset", "dashboard")

\* C7 as stated: compilation, then the test gate, then the asset fetcher.
C7_CompileTestFetch ==
    /\ After("cargo_build", "cw_cli", "cargo_test", "-")
    /\ After("cargo_test", "-", "pnpm_install", "-")

\* C7 amended: the asset fetcher (build_npm_packages), then the test gate,
\* then the compilation of cw_cli and figterm, then (macOS) bundle assembly:
\* the tests run only after the asset trees were copied, and nothing is
\* compiled before the tests have passed.
C7_FetchTestCompile ==
    /\ After("copy_asset", "dashboard", "cargo_test", "-")
    /\ After("copy_asset", "autocomplete", "cargo_test", "-")
    /\ \A p \in {"cw_cli", "figterm", "fig_input_method"} : After("cargo_test", "-", "cargo_build", p)
    /\ After("cargo_build", "cw_cli", "cargo_build", "figterm")
    /\ After("lipo", "figterm", "cargo_build", "fig_input_method")
    /\ After("lipo", "cw_cli", "write_manifest", "-")

C7_Witness == Done("cargo_test", "-") /\ Done("cargo_build", "figterm")

\* C8 as stated: no signing or notarization request before the disk image
\* has been built.
C8_NoSigningBeforeImage ==
    \A i \in DOMAIN log :
        log[i].op \in {"sign", "notarize"}
            => \E j \in 1..(i - 1) : log[j].op = "appdmg" /\ log[j].ok

\* C8 amended: no request for the app bundle or the disk image is issued
\* before bundle assembly has finished and the disk image has been built; the
\* requests for the helper bundle are issued during assembly, before the
\* image exists.
C8_AppSigningAfterImage ==
    /\ \A a \in {"app", "dmg"} : \A op \in {"sign", "notarize"} :
           /\ After("appdmg", "-", op, a)
           /\ After("copy_resource", "autocomplete", op, a)
    /\ \A i \in DOMAIN log :
           (log[i].op \in {"sign", "notarize"} /\ log[i].arg = "ime")
               => \A j \in 1..i : log[j].op # "appdmg"

C8_Witness == Done("notarize", "ime") /\ Done("appdmg", "-") /\ Attempted("sign", "app")

\* C9: leaving out any of the optional keys of the blob never makes the run
\* fail.  The code subscripts aws_account_id and signing_role_name.
C9_NoOmissionRaises == ~Failed("signing_data")

\* C10: a Linux run without signing configuration and without output bucket,
\* every tool succeeding, exits 0 with the filesystem tree (binaries, headless
\* and desktop overlay) in place, no disk image and no upload.  The module
\* body never calls linux_bundle.
C10_LinuxTreeProduced ==
    (platform = "linux" /\ ~SigningRequested /\ ~n(build_args, "output_bucket") /\ pc = "done")
        => /\ exit = "0"
           /\ linux_bundle_tree(FALSE) \subseteq fs
           /\ ~dmg_image.exists
           /\ \A i \in DOMAIN log : log[i].op # "s3_cp"

\* C11: a macOS run with a signing configuration and an output bucket in
\* which every tool and service succeeded ends with the one disk image at
\* dmg_path, built from the signed and notarized app, itself notarized, and
\* with the image and the sidecar holding its digest uploaded, once each.
Count(op, arg) == Len(SelectSeq(log, LAMBDA e : Is(e, op, arg)))

C11_SignedImagePublished ==
    (platform = "darwin" /\ signing_data = "SigningData" /\ n(build_args, "output_bucket")
        /\ pc = "done")
        => /\ exit = "0"
           /\ Done("lipo", "cw_cli") /\ Done("lipo", "figterm")
           /\ dmg_image.exists
           /\ {CodeSignature, Ticket} \subseteq dmg_image.app
           /\ dmg_image.sig = "notarized"
           /\ sha_text = Digest(dmg_image)
           /\ staging.dmg = dmg_image
           /\ staging.sha = sha_text
           /\ Count("s3_cp", "dmg") = 1 /\ Count("s3_cp", "sha") = 1
           /\ Done("s3_cp", "sha")

C11_Witness ==
    /\ platform = "darwin" /\ signing_data = "SigningData" /\ n(build_args, "output_bucket")
    /\ pc = "done"
    /\ staging.sha = Digest(dmg_image)

\* The final artifacts of a run, as the steps name them, and the name under
\* which the sidecar of each would be uploaded.
FinalArtifacts == IF platform = "darwin" THEN {"dmg"} ELSE {"cw", "cwterm"}

Sidecar(a) ==
    CASE a = "dmg" -> "sha"
      [] a = "cw" -> "cw.sha256"
      [] a = "cwterm" -> "cwterm.sha256"

\* C12: without signing configuration, a successful run on either platform
\* has produced its final artifact and a checksum sidecar of it whose content
\* is the digest of the artifact.  The Linux branch never calls generate_sha.
C12_SidecarWithoutSigning ==
    (signing_data = "None" /\ pc = "done") =>
        /\ platform = "darwin" => (dmg_image.exists /\ sha_text = Digest(dmg_image))
        /\ platform = "linux" =>
               /\ {outpath("cw_cli"), outpath("figterm")} \subseteq fs
               /\ \A a \in FinalArtifacts : Done("shasum", a)

\* C13: every final artifact gets a digest sidecar; with an output bucket no
\* artifact is uploaded without its sidecar; without one nothing is uploaded.
C13_ArtifactWithSidecar ==
    pc = "done" =>
        /\ \A a \in FinalArtifacts : Done("shasum", a)
        /\ n(build_args, "output_bucket") =>
               \A a \in FinalArtifacts : Done("s3_cp", a) => Done("s3_cp", Sidecar(a))
        /\ ~n(build_args, "output_bucket") => \A i \in DOMAIN log : log[i].op # "s3_cp"

\* C14: bundle/dmg/spec.json is there when appdmg is invoked and is gone once
\* that invocation has ended and the statement after it has run, whether
\* appdmg succeeded or failed.  The code unlinks it only when run_cmd returned.
C14_SpecFileGone ==
    /\ pc = "appdmg" => dmg_spec_path \in fs
    /\ (Attempted("appdmg", "-") /\ pc # "unlink_dmg_spec") => dmg_spec_path \notin fs

\* C15: for the helper bundle, the app bundle and the disk image alike, the
\* notarization request is issued only after the signing request of the same
\* artifact has succeeded (each request is a blocking call, so the two are
\* never in flight together), and nothing carries a notarization ticket
\* without carrying a signature.
SignedArtifacts == {"ime", "app", "dmg"}

HasTicketOnlyIfSigned(bundle) ==
    (bundle \o Ticket) \in fs => (bundle \o CodeSignature) \in fs

C15_NotarizeAfterSign ==
    /\ \A a \in SignedArtifacts : After("sign", a, "notarize", a)
    /\ \A i \in DOMAIN log :
           log[i].op = "notarize" => (i > 1 /\ Is(log[i - 1], "sign", log[i].arg) /\ log[i - 1].ok)
    /\ HasTicketOnlyIfSigned(input_method_app)
    /\ HasTicketOnlyIfSigned(bundle_path)
    /\ Done("notarize", "dmg") => (dmg_image.exists /\ dmg_image.sig = "notarized")

C15_Witness ==
    Done("notarize", "ime") /\ Done("notarize", "app") /\ Done("notarize", "dmg")

\* C16: the helper bundle is copied into the parent only after its binary,
\* its Info.plist and its resources have all been copied in this run, and
\* whatever helper the parent holds is a complete one.
HelperParts == {<<"Contents", "MacOS", "fig_input_method">>, <<"Contents", "Info.plist">>,
                <<"Contents", "Resources">>}

embedded_helper == helpers_dir \o <<"CodeWhispererInputMethod.app">>

C16_HelperAssembledBeforeEmbedding ==
    /\ \A part \in {"bin", "plist", "resources"} : After("ime_part", part, "copy_helper", "-")
    /\ pc = "copy_helper" => HelperParts \subseteq Tree(fs, input_method_app)
    /\ Exists(fs, embedded_helper) => HelperParts \subseteq Tree(fs, embedded_helper)

C16_Witness == Done("copy_helper", "-") /\ Exists(fs, embedded_helper)

\* C17: each of the four metadata patches is applied after the packaging
\* tool's bundle has been copied to build/CodeWhisperer.app and before the
\* helper bundle is copied into it; the helper is copied only after all four.
PatchLabels == {"plist_display_name", "plist_bundle_name", "plist_agent", "plist_url"}

C17_PatchBetweenBundleAndHelper ==
    /\ \A k \in PlistKeys :
           /\ After("copy_bundle", "-", "plist", k)
           /\ After("plist", k, "copy_helper", "-")
    /\ \A i, j \in DOMAIN log :
           (log[i].op = "plist" /\ log[j].op = "copy_helper") => i < j
    /\ pc \in PatchLabels => (info_plist_path \in fs /\ ~Exists(fs, embedded_helper))

C17_Witness ==
    /\ \A k \in PlistKeys : Done("plist", k)
    /\ Done("copy_helper", "-")

\* C18: when the app bundle is submitted for signing it holds exactly one
\* embedded helper bundle, Contents/Helpers/CodeWhispererInputMethod.app, the
\* themes tree and the tree of every npm package, and an Info.plist carrying
\* the four patched values; no signing request for the app is made without them.
npm_packages == {"dashboard", "autocomplete"}

ResourceTrees == {"themes"} \cup npm_packages

OneHelper(files) ==
    /\ HelperParts \subseteq Tree(files, embedded_helper)
    /\ \A r \in Tree(files, helpers_dir) : r # <<>> /\ r[1] = "CodeWhispererInputMethod.app"

Patched(files) ==
    \A k \in PlistKeys : Tree(files, info_plist_path \o <<k>>) = {<<PatchValue(k)>>}

EligibleForSigning(files) ==
    /\ OneHelper(files)
    /\ \A t \in ResourceTrees : Exists(files, bundle_path \o <<"Contents", "Resources", t>>)
    /\ Patched(files)

C18_CompleteWhenSubmitted ==
    (pc = "sign_app" \/ Attempted("sign", "app")) => EligibleForSigning(fs)

C18_Witness == Attempted("sign", "app") /\ EligibleForSigning(fs)

\* C19: when a required input directory is missing (the helper's resources, the
\* packaging tool's bundle, the themes tree, an npm package tree) the assembly
\* fails and no partly assembled bundle is left in build/.
MissingInput(e) ==
    /\ ~e.ok
    /\ \/ e.op = "ime_part" /\ e.arg = "resources"
       \/ e.op = "copy_bundle"
       \/ e.op = "copy_resource" /\ e.arg \in ResourceTrees

NoPartialBundle(files) ==
    /\ Exists(files, input_method_app) => HelperParts \subseteq Tree(files, input_method_app)
    /\ Exists(files, bundle_path) => EligibleForSigning(files)

C19_NoPartialBundle ==
    (pc = "failed" /\ log # <<>> /\ MissingInput(log[Len(log)])) => NoPartialBundle(fs)

-----------------------------------------------------------------------------
\* The metadata patch step of build_desktop_app, lines 263-308, on its own:
\* the four commands applied to a bundle whose Info.plist holds any mix of
\* absent, stock and already patched keys, and applied again to their result.

MaxPatches == 2

StockValue == "codewhisperer_desktop"

PlistStates == [PlistKeys -> {"absent", "stock", "patched"}]

PlistOf(f) ==
    {info_plist_path \o <<k, StockValue>> : k \in {x \in PlistKeys : f[x] = "stock"}}
        \cup {info_plist_path \o <<k, PatchValue(k)>> : k \in {x \in PlistKeys : f[x] = "patched"}}

InitPatch ==
    /\ platform = "darwin"
    /\ build_args = {}
    /\ pc = "plist_display_name"
    /\ pkg = "-"
    /\ signing_data = "None"
    /\ features = "None"
    /\ \E f \in PlistStates :
           fs = copytree({target_bundle \o <<"Contents", "MacOS", "codewhisperer_desktop">>,
                          target_bundle \o <<"Contents", "Info.plist">>},
                         target_bundle, bundle_path) \cup PlistOf(f)
    /\ dmg_image = NoImage
    /\ sha_text = NoText
    /\ staging = [dmg |-> NoImage, sha |-> NoText, bins |-> {}]
    /\ log = <<>>
    /\ exit = "none"
    /\ runs = 1
    /\ is_headless = FALSE
    /\ wait = Idle
    /\ NotBuildIdle

\* The step applied once more to the bundle it has just patched.
PatchAgain ==
    /\ pc = "copy_helper"
    /\ Count("plist", "CFBundleDisplayName") < MaxPatches
    /\ pc' = "plist_display_name"
    /\ UNCHANGED <<platform, build_args, pkg, signing_data, features, fs, dmg_image,
                   sha_text, staging, log, exit, runs, is_headless, wait, NotBuild>>

NextPatch ==
    \/ build_desktop_app_display_name
    \/ build_desktop_app_bundle_name
    \/ build_desktop_app_agent
    \/ build_desktop_app_url_types
    \/ PatchAgain

PatchSpec == InitPatch /\ [][NextPatch]_vars

\* C20: the metadata patch step is idempotent: applied to a bundle whose
\* Info.plist is already patched it can run to its end, and whenever it has
\* run to its end the four keys hold the patched values.
C20_PatchIdempotent ==
    /\ (pc = "plist_url" /\ Patched(fs))
           => ENABLED (build_desktop_app_url_types /\ pc' = "copy_helper")
    /\ pc = "copy_helper" => Patched(fs)

-----------------------------------------------------------------------------
\* C21: whenever the image tool is invoked for build/CodeWhisperer.dmg, in the
\* first run, in a later run or in the rebundle, no earlier image is at that
\* path: each appdmg follows an unlink of the path with nothing written to it
\* in between, and the rebundled image holds the bundle as it is then and
\* nothing of the image it replaces.
ImageWrites == {"appdmg", "rebundle"}

-----------------------------------------------------------------------------
\* C22: linux_bundle started on an empty staging directory with all its inputs
\* present.  Headless: the tree holds the two binaries and the headless
\* overlay and no desktop binary, desktop overlay file or icon.  Not headless:
\* the step completes and the tree holds both overlays, the desktop binary and
\* the icon at each of the nine resolutions.
StartedEmpty == \A res \in AllResolutions : icon_dir(res) \notin fs

DesktopOnly ==
    {icon_dst(res) : res \in AllResolutions}
        \cup {OUTDIR \o desktop_file, bin_path \o <<"codewhisperer_desktop">>}

C22_LinuxBundleTree ==
    (StartedEmpty /\ (HeadlessInputs \cup DesktopInputs \cup Icons) \subseteq fs)
        => /\ pc # "failed"
           /\ pc = "lb_return"
                  => /\ linux_bundle_tree(is_headless) \subseteq fs
                     /\ is_headless => DesktopOnly \cap fs = {}

\* C23: a headless linux_bundle never touches the desktop binary, the desktop
\* overlay or the icons: it logs no step on them, it fails only when one of
\* the two binaries or the headless overlay is missing, and the tree it
\* returns with is the same whether or not the desktop inputs exist.
DesktopSteps == {"copy_icon"}

Produced(files) ==
    {p \in files : IsPrefix(OUTDIR, p)}
        \ ({cw_cli_path, cwterm_path, bin_path} \cup {icon_dir(res) : res \in AllResolutions})

C23_HeadlessIgnoresDesktop ==
    is_headless
        => /\ \A i \in DOMAIN log :
                  /\ log[i].op \notin DesktopSteps
                  /\ log[i].arg \notin {"desktop", "codewhisperer_desktop"}
           /\ pc = "failed" => ~(HeadlessInputs \subseteq fs)
           /\ pc = "lb_return" => Produced(fs) = linux_bundle_tree(TRUE)

C23_Witness ==
    /\ is_headless
    /\ pc = "lb_return"
    /\ codewhisperer_desktop_path \notin fs
    /\ Icons \cap fs # Icons

\* C24: when the first stage of a run begins, build/ has been cleared and
\* recreated: it holds no binary, helper bundle, app bundle, disk image or
\* checksum of an earlier run.
C24_StagingCleared ==
    pc = "pnpm_install"
        => /\ ~Exists(fs, OUTDIR)
           /\ ~dmg_image.exists
           /\ ~sha_text.exists

-----------------------------------------------------------------------------
\* The signing and notarization round trips of lines 185-188 and 355-375 as
\* the request/poll loop the client runs: it submits the artifact, then polls
\* the service and sleeps until the service reports a terminal state.  The
\* loop has no timeout and no retry budget, and build.py puts none around it.

WaitLabels == {"ime_sign", "ime_notarize", "sign_app", "notarize_app", "sign_dmg",
               "notarize_dmg"}

Waiting == UNCHANGED <<platform, build_args, pc, pkg, signing_data, features, fs, dmg_image,
                       sha_text, staging, log, exit, runs, is_headless, NotBuild>>

Submit ==
    /\ pc \in WaitLabels
    /\ wait.of # pc
    /\ wait' = [of |-> pc, at |-> "polling"]
    /\ Waiting

\* The service has no terminal state to report yet.
PollPending ==
    /\ wait.of = pc /\ wait.at = "polling"
    /\ wait' = [wait EXCEPT !.at = "sleeping"]
    /\ Waiting

Sleep ==
    /\ wait.of = pc /\ wait.at = "sleeping"
    /\ wait' = [wait EXCEPT !.at = "polling"]
    /\ Waiting

\* The service reports a terminal state, success or failure.
PollTerminal ==
    /\ wait.of = pc /\ wait.at = "polling"
    /\ wait' = [wait EXCEPT !.at = "reported"]
    /\ Waiting

Reported == wait = [of |-> pc, at |-> "reported"]

build_macos_ime_sign_reported == Reported /\ build_macos_ime_sign
build_macos_ime_notarize_reported == Reported /\ build_macos_ime_notarize
sign_and_rebundle_macos_sign_app_reported == Reported /\ sign_and_rebundle_macos_sign_app
sign_and_rebundle_macos_notarize_app_reported == Reported /\ sign_and_rebundle_macos_notarize_app
sign_and_rebundle_macos_sign_dmg_reported == Reported /\ sign_and_rebundle_macos_sign_dmg
sign_and_rebundle_macos_notarize_dmg_reported == Reported /\ sign_and_rebundle_macos_notarize_dmg

\* One run on macOS with a complete signing configuration.
InitWait ==
    /\ Init
    /\ platform = "darwin"
    /\ SigningRequested
    /\ ~SigningDataKeyError

NextWait ==
    \/ ParseBuildArgs
    \/ MkdirOutdir
    \/ build_npm_packages_install
    \/ build_npm_packages_build
    \/ build_npm_packages_dashboard
    \/ build_npm_packages_autocomplete
    \/ run_cargo_tests
    \/ BuildCwCli
    \/ BuildFigterm
    \/ build_cargo_bin_targets
    \/ build_cargo_bin_cargo
    \/ build_cargo_bin_lipo
    \/ PlatformBranch
    \/ BuildImeBin
    \/ build_macos_ime_bin
    \/ build_macos_ime_plist
    \/ build_macos_ime_resources
    \/ build_desktop_app_manifest
    \/ build_desktop_app_tauri_config
    \/ build_desktop_app_cargo_tauri
    \/ build_desktop_app_cleanup
    \/ build_desktop_app_copy_bundle
    \/ build_desktop_app_display_name
    \/ build_desktop_app_bundle_name
    \/ build_desktop_app_agent
    \/ build_desktop_app_url_types
    \/ build_desktop_app_copy_helper
    \/ build_desktop_app_clone_themes
    \/ build_desktop_app_copy_themes
    \/ build_desktop_app_copy_dashboard
    \/ build_desktop_app_copy_autocomplete
    \/ build_desktop_app_dmg_spec
    \/ build_desktop_app_unlink_dmg
    \/ build_desktop_app_appdmg
    \/ build_desktop_app_unlink_dmg_spec
    \/ sign_and_rebundle_macos_rebundle
    \/ generate_sha
    \/ UploadDmg
    \/ UploadSha
    \/ ExitOk
    \/ Submit
    \/ PollPending
    \/ Sleep
    \/ PollTerminal
    \/ build_macos_ime_sign_reported
    \/ build_macos_ime_notarize_reported
    \/ sign_and_rebundle_macos_sign_app_reported
    \/ sign_and_rebundle_macos_notarize_app_reported
    \/ sign_and_rebundle_macos_sign_dmg_reported
    \/ sign_and_rebundle_macos_notarize_dmg_reported

\* The interpreter keeps executing the script: some step is always taken
\* while one is possible.  Nothing is assumed about what the service answers.
FairWaitSpec == InitWait /\ [][NextWait]_vars /\ WF_vars(NextWait)

\* C25: every run terminates, in success or in failure, even when the signing
\* or notarization service never reports a terminal state.
C25_RunTerminates == <>(pc \in {"done", "failed"})

-----------------------------------------------------------------------------
\* C26: on macOS a universal binary exists only as the merge of the build
\* output of every declared architecture: its slices are exactly the declared
\* targets, a successful merge had every constituent in place, a merge with a
\* constituent missing fails and ends the run, and no stage after
\* build_cargo_bin runs on a package whose merge did not succeed.
Packages == {"cw_cli", "figterm", "fig_input_method"}

Slices(package) == {t \in targets("darwin") : outpath(package) \o <<t>> \in fs}

C26_MergeOfEveryArchitecture ==
    platform = "darwin" =>
        /\ \A p \in Packages :
               /\ Exists(fs, outpath(p)) => Slices(p) = targets("darwin")
               /\ Done("lipo", p) => \A t \in targets("darwin") : target_output(t, p) \in fs
        /\ \A i \in DOMAIN log :
               (log[i].op = "lipo" /\ ~log[i].ok) => (i = Len(log) /\ pc = "failed")
        /\ (pc = "bcb_lipo" /\ \E t \in targets("darwin") : target_output(t, pkg) \notin fs)
               => ~ENABLED (build_cargo_bin_lipo /\ pc' # "failed")
        /\ Attempted("ime_part", "bin") => \A p \in Packages : Done("lipo", p)

C26_Witness ==
    /\ platform = "darwin"
    /\ pc = "failed"
    /\ Failed("lipo")
    /\ target_output("x86_64-apple-darwin", "cw_cli") \in fs
    /\ target_output("aarch64-apple-darwin", "cw_cli") \notin fs

-----------------------------------------------------------------------------
\* C27: the test suite runs with the same feature list as every release
\* compilation of the run: the CLI, the terminal shim, the helper input method
\* and the desktop shell.  build_macos_ime passes no features.
Compilations == {"cargo_build", "cargo_tauri"}

C27_TestsAsRelease ==
    \A i, j \in DOMAIN log :
        (log[i].op = "cargo_test" /\ log[j].op \in Compilations)
            => log[j].feat = log[i].feat

\* C28: the outcome of a failed run tells the operator which class of stage
\* failed: a build or test failure, a packaging failure and a signing or
\* notarization failure end in three different outcomes.  Every failure is an
\* uncaught exception and ends the process with status 1, so it is enough to
\* ask for an outcome other than a build failure's when another class failed.
BuildTestOps == {"pnpm_install", "pnpm_build", "copy_asset", "cargo_test", "targets",
                 "cargo_build", "lipo", "copy_bin"}

PackagingOps == {"ime_part", "write_manifest", "write_tauri_config", "cargo_tauri", "cleanup",
                 "copy_bundle", "plist", "copy_helper", "git_clone", "copy_resource",
                 "write_dmg_spec", "unlink_dmg", "appdmg", "unlink_dmg_spec"}

StageClass(op) ==
    CASE op \in BuildTestOps -> "build/test"
      [] op \in PackagingOps -> "packaging"
      [] op \in SigningOps -> "signing/notarization"
      [] OTHER -> "other"

C28_FailureClassVisible ==
    (pc = "failed" /\ log # <<>>)
        => LET class == StageClass(log[Len(log)].op)
           IN  /\ class = "build/test" => exit = "1"
               /\ class \in {"packaging", "signing/notarization"} => exit # "1"

\* C29: the test suite command is invoked at most once in a run; when it
\* exits non-zero nothing follows it: the run has failed with status 1.
C29_TestsRunOnce ==
    /\ Count("cargo_test", "-") <= 1
    /\ \A i \in DOMAIN log :
           (log[i].op = "cargo_test" /\ ~log[i].ok)
               => (i = Len(log) /\ pc = "failed" /\ exit = "1")

C29_Witness == Failed("cargo_test") /\ pc = "failed"

\* C30: the sidecar of the disk image is computed after the last operation
\* of the run that changes the image (its creation and, with signing, the
\* rebundle, the signing and the notarization of the image), so while the two
\* are uploaded the sidecar holds the digest of the image as it is, and what
\* one run has uploaded is an image and the digest of that image.
ImageChanges(e) ==
    \/ e.op \in {"unlink_dmg", "appdmg", "rebundle"}
    \/ e.op \in {"sign", "notarize"} /\ e.arg = "dmg"

C30_SidecarAfterLastChange ==
    /\ \A i, j \in DOMAIN log :
           (Is(log[i], "shasum", "dmg") /\ ImageChanges(log[j])) => j < i
    /\ pc \in {"upload_dmg", "upload_sha"} => sha_text = Digest(dmg_image)
    /\ (Done("s3_cp", "dmg") /\ Done("s3_cp", "sha")) => staging.sha = Digest(staging.dmg)

C30_Witness ==
    /\ Done("notarize", "dmg")
    /\ Done("s3_cp", "dmg")
    /\ Done("s3_cp", "sha")

\* C31: on macOS with an output bucket the image is uploaded before its
\* sidecar and the sidecar only after the upload of the image has succeeded:
\* when the sidecar's upload is attempted, the staging location already holds
\* the image of this run.
C31_ImageBeforeSidecar ==
    /\ After("s3_cp", "dmg", "s3_cp", "sha")
    /\ (pc = "upload_sha" \/ Attempted("s3_cp", "sha"))
           => (Done("s3_cp", "dmg") /\ staging.dmg = dmg_image)

C31_Witness ==
    /\ Attempted("s3_cp", "sha")
    /\ staging.dmg = dmg_image
    /\ signing_data = "None"

\* C32: with signing configured the helper bundle is signed and notarized
\* before it is copied into the app bundle, and the app is submitted for
\* signing only after the helper is embedded: the helper inside an app that
\* is submitted for signing carries its signature and its ticket.
C32_SignedHelperEmbedded ==
    signing_data = "SigningData"
        => /\ After("sign", "ime", "copy_helper", "-")
           /\ After("notarize", "ime", "copy_helper", "-")
           /\ After("copy_helper", "-", "sign", "app")
           /\ Attempted("sign", "app")
                  => {CodeSignature, Ticket} \subseteq Tree(fs, embedded_helper)

C32_Witness ==
    /\ Done("sign", "app")
    /\ Done("notarize", "ime")
    /\ {CodeSignature, Ticket} \subseteq Tree(fs, embedded_helper)

\* C33: every signing request carries the SigningType of the artifact it
\* names, IME for the helper bundle, APP for the app bundle and DMG for the
\* disk image, and in one run each of the three is sent for signing at most
\* once and for notarization at most once.
SigningType(artifact) ==
    CASE artifact = "ime" -> "IME"
      [] artifact = "app" -> "APP"
      [] artifact = "dmg" -> "DMG"

C33_KindMatchesArtifact ==
    /\ \A i \in DOMAIN log :
           log[i].op \in {"sign", "notarize"} => log[i].arg \in {"ime", "app", "dmg"}
    /\ \A i \in DOMAIN log :
           log[i].op = "sign" => log[i].feat = SigningType(log[i].arg)
    /\ \A a \in {"ime", "app", "dmg"} : Count("sign", a) <= 1 /\ Count("notarize", a) <= 1

C33_Witness ==
    /\ Count("sign", "ime") = 1
    /\ Count("sign", "app") = 1
    /\ Count("sign", "dmg") = 1
    /\ Count("notarize", "dmg") = 1

\* ---------------------------------------------------------------------------
\* e2etests/run_tests.py
\* ---------------------------------------------------------------------------

DEFAULT_TESTSUITE == "sanity"

\* The names that select a test suite.
SuiteNames == {"sanity", "regression"}

\* [features] of the Cargo.toml the runner reads: one grouped feature with two
\* sub-features and one standalone feature.
grouped_features == <<"core_session">>
standalone_features == <<"usage">>
child_features == {"help", "quit"}

\* valid_features of validate_features.
valid_features == {"core_session", "usage"} \cup child_features

\* list(grouped_features.keys()) + standalone_features
parse_features == grouped_features \o standalone_features

\* Longest list given to --features.
MaxRequested == 2

\* Names that can be written after --features.
RequestNames == {"usage", "help", "sanity", "regression", "bogus"}

\* Most individual test results of either status parsed from one output.
MaxParsed == 1

\* The values of --features after the split at the commas; <<>> stands for
\* a run without --features.
Requests == UNION {[1..k -> RequestNames] : k \in 0..MaxRequested}

\* Elements of a list that are not in drop, in order.
RECURSIVE Without(_, _)
Without(list, drop) ==
    IF list = <<>> THEN <<>>
    ELSE IF Head(list) \notin drop THEN <<Head(list)>> \o Without(Tail(list), drop)
    ELSE Without(Tail(list), drop)

Elems(list) == {list[i] : i \in 1..Len(list)}

InitRunner ==
    /\ platform = "linux"
    /\ build_args = {}
    /\ pc = "rt_main"
    /\ pkg = "none"
    /\ signing_data = "unset"
    /\ features = "unset"
    /\ fs = {}
    /\ dmg_image = NoImage
    /\ sha_text = NoText
    /\ staging = [a \in Artifacts |-> NoImage]
    /\ log = <<>>
    /\ exit = "none"
    /\ runs = 1
    /\ is_headless = FALSE
    /\ wait = Idle
    /\ requested_features \in Requests
    /\ test_suites = <<>>
    /\ all_features = <<>>
    /\ results = <<>>
    /\ pos = 0
    /\ AgentIdle
    /\ ReduxIdle

\* Everything run_tests.py does not touch.
RunnerFrame ==
    UNCHANGED <<platform, build_args, pkg, signing_data, features, fs, dmg_image,
                sha_text, staging, log, runs, is_headless, wait, AgentState, ReduxState>>

\* main without --features: every feature of Cargo.toml with the default suite.
main_all_features ==
    /\ pc = "rt_main"
    /\ requested_features = <<>>
    /\ all_features' = parse_features
    /\ test_suites' = <<DEFAULT_TESTSUITE>>
    /\ pc' = "rt_run"
    /\ UNCHANGED <<requested_features, results, pos, exit>>
    /\ RunnerFrame

validate_features ==
    /\ pc = "rt_main"
    /\ requested_features /= <<>>
    /\ IF Elems(requested_features) \subseteq valid_features \cup SuiteNames
       THEN pc' = "rt_suites" /\ exit' = exit
       ELSE pc' = "exited" /\ exit' = "1"
    /\ UNCHANGED RunnerState
    /\ RunnerFrame

\* The suites named in the list, 'sanity' first, before the check of their number.
named_suites(list) ==
    (IF "sanity" \in Elems(list) THEN <<"sanity">> ELSE <<>>)
        \o (IF "regression" \in Elems(list) THEN <<"regression">> ELSE <<>>)

get_test_suites_from_features_unchecked ==
    /\ pc = "rt_suites"
    /\ test_suites' = IF named_suites(requested_features) = <<>>
                      THEN <<DEFAULT_TESTSUITE>>
                      ELSE named_suites(requested_features)
    /\ pc' = "rt_select"
    /\ exit' = exit
    /\ UNCHANGED <<requested_features, all_features, results, pos>>
    /\ RunnerFrame

get_test_suites_from_features ==
    /\ pc = "rt_suites"
    /\ IF Len(named_suites(requested_features)) > 1
       THEN /\ pc' = "exited"
            /\ exit' = "1"
            /\ test_suites' = test_suites
       ELSE /\ test_suites' = IF named_suites(requested_features) = <<>>
                              THEN <<DEFAULT_TESTSUITE>>
                              ELSE named_suites(requested_features)
            /\ pc' = "rt_select"
            /\ exit' = exit
    /\ UNCHANGED <<requested_features, all_features, results, pos>>
    /\ RunnerFrame

\* features_only of main.
features_only(list) == Without(list, SuiteNames)

main_select_features ==
    /\ pc = "rt_select"
    /\ all_features' = IF features_only(requested_features) = <<>>
                       THEN parse_features
                       ELSE features_only(requested_features)
    /\ pc' = "rt_run"
    /\ UNCHANGED <<requested_features, test_suites, results, pos, exit>>
    /\ RunnerFrame

\* What one cargo test command can come to: its return code is zero or not,
\* and parse_test_results finds some passed and failed tests in its output.
\* A command that returned zero printed no FAILED line.
CargoOutcomes ==
    {o \in [success : BOOLEAN, passed : 0..MaxParsed, failed : 0..MaxParsed] :
        o.success => o.failed = 0}

run_single_cargo_test(feature, test_suite, o) ==
    [feature |-> feature, test_suite |-> test_suite, success |-> o.success,
     passed |-> o.passed, failed |-> o.failed]

\* The pair the two loops of run_tests_with_suites visit after p pairs.
suite_at(p) == test_suites[(p \div Len(all_features)) + 1]
feature_at(p) == all_features[(p % Len(all_features)) + 1]

run_tests_with_suites ==
    /\ pc = "rt_run"
    /\ pos < Len(test_suites) * Len(all_features)
    /\ IF feature_at(pos) \notin SuiteNames
       THEN \E o \in CargoOutcomes :
                results' = Append(results,
                                  run_single_cargo_test(feature_at(pos), suite_at(pos), o))
       ELSE results' = results
    /\ pos' = pos + 1
    /\ UNCHANGED <<requested_features, test_suites, all_features, pc, exit>>
    /\ RunnerFrame

\* failed_individual_tests of generate_report.
RECURSIVE failed_individual_tests(_)
failed_individual_tests(rs) ==
    IF rs = <<>> THEN 0 ELSE Head(rs).failed + failed_individual_tests(Tail(rs))

\* generate_report and the sys.exit that ends main.
main_exit ==
    /\ pc = "rt_run"
    /\ pos = Len(test_suites) * Len(all_features)
    /\ pc' = "exited"
    /\ exit' = IF failed_individual_tests(results) = 0 THEN "0" ELSE "1"
    /\ UNCHANGED RunnerState
    /\ RunnerFrame

NextRunner ==
    \/ main_all_features
    \/ validate_features
    \/ get_test_suites_from_features
    \/ main_select_features
    \/ run_tests_with_suites
    \/ main_exit

RunnerSpec == InitRunner /\ [][NextRunner]_vars

\* C34: the runner exits with status 0 only if every cargo test command it ran
\* returned zero.
C34_ExitZeroOnlyIfAllCommandsPassed ==
    (pc = "exited" /\ exit = "0") =>
        \A i \in 1..Len(results) : results[i].success

\* C35: one suite per run. A list naming both suites ends the run with status 1
\* and no cargo test command; a list naming neither runs 'sanity'; no command is
\* run for a suite name as the feature.
C35_OneSuitePerRun ==
    /\ SuiteNames \subseteq Elems(requested_features) =>
           (results = <<>> /\ pc \notin {"rt_select", "rt_run"}
                /\ (pc = "exited" => exit = "1"))
    /\ (pc \in {"rt_select", "rt_run"} \/ results /= <<>>) =>
           /\ Len(test_suites) = 1
           /\ Elems(requested_features) \cap SuiteNames = {} =>
                  test_suites = <<"sanity">>
           /\ Elems(requested_features) \cap SuiteNames /= {} =>
                  Elems(test_suites) = Elems(requested_features) \cap SuiteNames
    /\ \A i \in 1..Len(results) :
           /\ results[i].feature \notin SuiteNames
           /\ results[i].test_suite = test_suites[1]

\* A run asked for both suites has ended without a cargo test command.
C35_Witness ==
    /\ requested_features = <<"regression", "sanity">>
    /\ pc = "exited"
    /\ exit = "1"
    /\ results = <<>>

\* ---------------------------------------------------------------------------
\* terminal-bench-test/main.py
\* ---------------------------------------------------------------------------

\* The text the polling loop looks for.
Marker == "QCLI_FINISHED_"

\* Lines the pane shows at once.
PaneHeight == 4

\* Iterations of the polling loop that fit in max_wait_time.
MaxPolls == 3

\* Lines qchat prints before it ends.
MaxPrinted == 2

CredentialNames == {"AWS_ACCESS_KEY_ID", "AWS_SECRET_ACCESS_KEY", "AWS_SESSION_TOKEN"}

\* A line of the pane is the sequence of its pieces of text. The line typed to
\* start the task:
\*   /usr/local/bin/qchat chat ... "$(cat /tmp/instruction.txt)"; echo "QCLI_FINISHED_$?"
command_line ==
    <<"/usr/local/bin/qchat chat --no-interactive --trust-all-tools \"$(cat /tmp/instruction.txt)\"; echo \"",
      Marker, "$?\"">>

\* The line the echo after qchat prints.
marker_line(code) == <<Marker, code>>

status_check_line == <<"echo 'STATUS_CHECK'">>

status_check_output == <<"STATUS_CHECK">>

\* The pane after some lines were written at its bottom.
show(p, lines) ==
    IF Len(p \o lines) > PaneHeight
    THEN SubSeq(p \o lines, Len(p \o lines) - PaneHeight + 1, Len(p \o lines))
    ELSE p \o lines

\* "QCLI_FINISHED_" in result
marker_in(result) ==
    \E i \in 1..Len(result) : \E j \in 1..Len(result[i]) : result[i][j] = Marker

InitAgent ==
    /\ platform = "linux"
    /\ build_args = {}
    /\ pc = "ag_credentials"
    /\ pkg = "none"
    /\ signing_data = "unset"
    /\ features = "unset"
    /\ fs = {}
    /\ dmg_image = NoImage
    /\ sha_text = NoText
    /\ staging = [a \in Artifacts |-> NoImage]
    /\ log = <<>>
    /\ exit = "none"
    /\ runs = 1
    /\ is_headless = FALSE
    /\ wait = Idle
    /\ RunnerIdle
    /\ aws_env \in SUBSET CredentialNames
    /\ pane = <<>>
    /\ qchat = "not_started"
    /\ printed = 0
    /\ polls = 0
    /\ completed = FALSE
    /\ ReduxIdle

\* Everything perform_task does not touch.
AgentFrame ==
    UNCHANGED <<platform, build_args, pkg, signing_data, features, fs, dmg_image,
                sha_text, staging, log, runs, is_headless, wait, RunnerState, ReduxState>>

\* The export lines typed when AWS_ACCESS_KEY_ID is set.
export_lines ==
    IF "AWS_ACCESS_KEY_ID" \in aws_env
    THEN <<<<"export AWS_ACCESS_KEY_ID">>, <<"export AWS_SECRET_ACCESS_KEY">>>>
             \o (IF "AWS_SESSION_TOKEN" \in aws_env
                 THEN <<<<"export AWS_SESSION_TOKEN">>>> ELSE <<>>)
             \o <<<<"export AMAZON_Q_SIGV4=1">>>>
    ELSE <<>>

perform_task_credentials ==
    /\ pc = "ag_credentials"
    /\ pane' = show(pane, export_lines)
    /\ pc' = "ag_instruction"
    /\ UNCHANGED <<aws_env, qchat, printed, polls, completed, exit>>
    /\ AgentFrame

perform_task_instruction ==
    /\ pc = "ag_instruction"
    /\ pane' = show(pane, <<<<"cat > /tmp/instruction.txt << \"EOF\"">>,
                            <<"instruction">>, <<"EOF">>>>)
    /\ pc' = "ag_run"
    /\ UNCHANGED <<aws_env, qchat, printed, polls, completed, exit>>
    /\ AgentFrame

perform_task_run ==
    /\ pc = "ag_run"
    /\ pane' = show(pane, <<command_line>>)
    /\ qchat' = "running"
    /\ pc' = "ag_loop"
    /\ UNCHANGED <<aws_env, printed, polls, completed, exit>>
    /\ AgentFrame

\* while time.time() - start_time < max_wait_time, and the sleep that opens
\* the body; past the limit perform_task returns.
perform_task_loop ==
    /\ pc = "ag_loop"
    /\ IF polls < MaxPolls
       THEN polls' = polls + 1 /\ pc' = "ag_status_check" /\ exit' = exit
       ELSE polls' = polls /\ pc' = "returned" /\ exit' = "AgentResult"
    /\ UNCHANGED <<aws_env, pane, qchat, printed, completed>>
    /\ AgentFrame

\* The keys of the status check: the terminal shows what was typed, and the
\* shell runs it once qchat no longer holds the terminal. send_keys can raise.
perform_task_status_check ==
    /\ pc = "ag_status_check"
    /\ \/ /\ pane' = show(pane, <<status_check_line>>
                                   \o (IF qchat = "finished"
                                       THEN <<status_check_output>> ELSE <<>>))
          /\ pc' = "ag_capture"
       \/ /\ pane' = pane
          /\ pc' = "ag_loop"
    /\ UNCHANGED <<aws_env, qchat, printed, polls, completed, exit>>
    /\ AgentFrame

\* capture_pane and the test for the marker; capture_pane can raise.
perform_task_capture ==
    /\ pc = "ag_capture"
    /\ \/ IF marker_in(pane)
          THEN completed' = TRUE /\ pc' = "returned" /\ exit' = "AgentResult"
          ELSE completed' = completed /\ pc' = "ag_loop" /\ exit' = exit
       \/ completed' = completed /\ pc' = "ag_loop" /\ exit' = exit
    /\ UNCHANGED <<aws_env, pane, qchat, printed, polls>>
    /\ AgentFrame

\* qchat writes a line of output.
qchat_prints ==
    /\ qchat = "running"
    /\ printed < MaxPrinted
    /\ pane' = show(pane, <<<<"output">>>>)
    /\ printed' = printed + 1
    /\ UNCHANGED <<aws_env, qchat, polls, completed, pc, exit>>
    /\ AgentFrame

\* qchat ends and the echo after it prints the marker with its status.
qchat_finishes ==
    /\ qchat = "running"
    /\ \E code \in {"0", "1"} : pane' = show(pane, <<marker_line(code)>>)
    /\ qchat' = "finished"
    /\ UNCHANGED <<aws_env, printed, polls, completed, pc, exit>>
    /\ AgentFrame

NextAgent ==
    \/ perform_task_credentials
    \/ perform_task_instruction
    \/ perform_task_run
    \/ perform_task_loop
    \/ perform_task_status_check
    \/ perform_task_capture
    \/ qchat_prints
    \/ qchat_finishes

AgentSpec == InitAgent /\ [][NextAgent]_vars

\* C36: the polling loop breaks with "completed" only after qchat has finished.
C36_CompletedOnlyAfterFinish ==
    completed => qchat = "finished"

\* ---------------------------------------------------------------------------
\* scripts/redux_cli.py
\* ---------------------------------------------------------------------------

\* A string is the sequence of its characters.
custom_prefix == <<"c", "u", "s", "t", "o", "m", ":">>

\* Characters after the start of a model id.
MaxTail == 3

\* Sequences of at most k elements of S.
UpTo(S, k) == UNION {[1..j -> S] : j \in 0..k}

\* Values of --model: <<>> stands for a run without --model.
ModelIds ==
    {start \o tail : start \in {<<>>, custom_prefix, <<"c", "u", "s", "t", "o", "m">>,
                                <<"x">> \o custom_prefix},
                     tail \in UpTo({"a", ":"}, MaxTail)}

\* s.startswith(start)
startswith(s, start) == Len(s) >= Len(start) /\ SubSeq(s, 1, Len(start)) = start

\* s[k:]
from(s, k) == SubSeq(s, k + 1, Len(s))

\* 1 + s.find(ch): the place of the first ch in s, 0 when s has none.
find(s, ch) ==
    IF \E i \in 1..Len(s) : s[i] = ch
    THEN CHOOSE i \in 1..Len(s) : s[i] = ch /\ \A j \in 1..(i - 1) : s[j] /= ch
    ELSE 0

\* 1 + s.rfind(ch)
rfind(s, ch) ==
    IF \E i \in 1..Len(s) : s[i] = ch
    THEN CHOOSE i \in 1..Len(s) : s[i] = ch /\ \A j \in (i + 1)..Len(s) : s[j] /= ch
    ELSE 0

\* len('custom:'), the literal of model_id[7:]
PrefixLen == 7

parse_custom_model_rfind(m) ==
    IF ~startswith(m, custom_prefix) THEN <<>>
    ELSE LET without_prefix == from(m, PrefixLen)
             colon_pos == rfind(without_prefix, ":")
         IN  IF colon_pos = 0 THEN <<>>
             ELSE <<[region |-> SubSeq(without_prefix, 1, colon_pos - 1),
                     actual_model_id |-> from(without_prefix, colon_pos),
                     full_id |-> m]>>

\* The dict parse_custom_model returns, in a sequence of its own; <<>> is None.
parse_custom_model(m) ==
    IF ~startswith(m, custom_prefix) THEN <<>>
    ELSE LET without_prefix == from(m, PrefixLen)
             colon_pos == find(without_prefix, ":")
         IN  IF colon_pos = 0 THEN <<>>
             ELSE <<[region |-> SubSeq(without_prefix, 1, colon_pos - 1),
                     actual_model_id |-> from(without_prefix, colon_pos),
                     full_id |-> m]>>

\* os.environ[name] = value
setenv(env, name, value) == {e \in env : e[1] /= name} \cup {<<name, value>>}

\* os.environ.get(name) == value
env_is(env, name, value) == <<name, value>> \in env

\* The environment a custom model asks for.
custom_environ(env, region) ==
    LET flagged == setenv(setenv(env, "AMAZON_Q_SIGV4", <<"1">>),
                          "AMAZON_Q_CUSTOM_MODEL", <<"1">>)
    IN  IF region /= <<>> THEN setenv(flagged, "AWS_REGION", region) ELSE flagged

setup_environment_eager(m, env) ==
    IF m /= <<>> /\ startswith(m, custom_prefix)
    THEN [environ |-> custom_environ(env, <<>>), model_info |-> parse_custom_model(m)]
    ELSE [environ |-> env, model_info |-> <<>>]

\* What setup_environment returns and the environment it leaves.
setup_environment(m, env) ==
    IF m /= <<>> /\ startswith(m, custom_prefix) /\ parse_custom_model(m) /= <<>>
    THEN [environ |-> custom_environ(env, parse_custom_model(m)[1].region),
          model_info |-> parse_custom_model(m)]
    ELSE [environ |-> env, model_info |-> <<>>]

\* Environments redux_cli.py is started in.
Environs ==
    {save \cup region :
        save \in {{}, {<<"REDUX_SAVE_CONVERSATIONS", <<"1">>>>},
                  {<<"REDUX_SAVE_CONVERSATIONS", <<"0">>>>}},
        region \in {{}, {<<"AWS_REGION", <<"b">>>>}}}

InitRedux ==
    /\ platform = "linux"
    /\ build_args = {}
    /\ pc = "rx_args"
    /\ pkg = "none"
    /\ signing_data = "unset"
    /\ features = "unset"
    /\ fs = {}
    /\ dmg_image = NoImage
    /\ sha_text = NoText
    /\ staging = [a \in Artifacts |-> NoImage]
    /\ log = <<>>
    /\ exit = "none"
    /\ runs = 1
    /\ is_headless = FALSE
    /\ wait = Idle
    /\ RunnerIdle
    /\ AgentIdle
    /\ model_id \in ModelIds
    /\ environ \in Environs
    /\ model_info = <<>>
    /\ child = "not_started"
    /\ returncode = "none"
    /\ saved = 0

\* Everything redux_cli.py does not touch.
ReduxFrame ==
    UNCHANGED <<platform, build_args, pkg, signing_data, features, fs, dmg_image,
                sha_text, staging, log, runs, is_headless, wait, RunnerState, AgentState>>

\* run, 181-187: the environment of a custom model, or the exit on a model id
\* that starts with 'custom:' and does not parse.
run_setup ==
    /\ pc = "rx_args"
    /\ IF model_id /= <<>>
       THEN /\ environ' = setup_environment(model_id, environ).environ
            /\ model_info' = setup_environment(model_id, environ).model_info
            /\ IF model_info' = <<>> /\ startswith(model_id, custom_prefix)
               THEN pc' = "exited" /\ exit' = "1"
               ELSE pc' = "rx_binary" /\ exit' = exit
       ELSE /\ UNCHANGED <<environ, model_info, exit>>
            /\ pc' = "rx_binary"
    /\ UNCHANGED <<model_id, child, returncode, saved>>
    /\ ReduxFrame

\* run, 189-219: the search for the binary.
run_find_binary ==
    /\ pc = "rx_binary"
    /\ \/ pc' = "rx_subprocess" /\ exit' = exit
       \/ pc' = "exited" /\ exit' = "1"
    /\ UNCHANGED ReduxState
    /\ ReduxFrame

\* subprocess.run starts the child, or raises before there is one.
run_subprocess ==
    /\ pc = "rx_subprocess"
    /\ \/ child' = "running" /\ pc' = "rx_wait" /\ exit' = exit
       \/ child' = child /\ pc' = "returned" /\ exit' = "1"
    /\ UNCHANGED <<model_id, environ, model_info, returncode, saved>>
    /\ ReduxFrame

\* The child ends with a return code, or KeyboardInterrupt ends the wait and
\* subprocess.run kills the child before it raises.
run_wait ==
    /\ pc = "rx_wait"
    /\ child' = "ended"
    /\ \/ \E code \in {"0", "2"} : returncode' = code /\ pc' = "rx_save"
       \/ returncode' = returncode /\ pc' = "rx_interrupt"
    /\ UNCHANGED <<model_id, environ, model_info, saved, exit>>
    /\ ReduxFrame

\* run, 247-250. save_conversation_json writes the file and returns, raises
\* before it has written, or is cut by KeyboardInterrupt before or after the
\* file is written.
run_save ==
    /\ pc = "rx_save"
    /\ IF model_info /= <<>> \/ env_is(environ, "REDUX_SAVE_CONVERSATIONS", <<"1">>)
       THEN \/ saved' = saved + 1 /\ pc' = "returned" /\ exit' = returncode
            \/ saved' = saved /\ pc' = "returned" /\ exit' = "1"
            \/ saved' = saved /\ pc' = "rx_interrupt" /\ exit' = exit
            \/ saved' = saved + 1 /\ pc' = "rx_interrupt" /\ exit' = exit
       ELSE saved' = saved /\ pc' = "returned" /\ exit' = returncode
    /\ UNCHANGED <<model_id, environ, model_info, child, returncode>>
    /\ ReduxFrame

\* run, 252-257. An exception of this save is caught by nothing and ends the
\* process with status 1.
run_interrupt ==
    /\ pc = "rx_interrupt"
    /\ IF model_info /= <<>>
       THEN \/ saved' = saved + 1 /\ pc' = "returned" /\ exit' = "130"
            \/ saved' = saved /\ pc' = "exited" /\ exit' = "1"
       ELSE saved' = saved /\ pc' = "returned" /\ exit' = "130"
    /\ UNCHANGED <<model_id, environ, model_info, child, returncode>>
    /\ ReduxFrame

NextRedux ==
    \/ run_setup
    \/ run_find_binary
    \/ run_subprocess
    \/ run_wait
    \/ run_save
    \/ run_interrupt

ReduxSpec == InitRedux /\ [][NextRedux]_vars

\* The model id starts with 'custom:' and has no ':' after it.
InvalidCustom == startswith(model_id, custom_prefix) /\ ":" \notin Elems(from(model_id, PrefixLen))

\* C37: a model id that starts with 'custom:' and is not custom:<region>:<model-id>
\* ends the process with status 1 before the child is started and with the
\* environment as it was; a model id that does not start with 'custom:' leaves
\* the environment as it was.
C37_InvalidCustomExitsClean ==
    /\ [](InvalidCustom /\ pc /= "rx_args" =>
              pc = "exited" /\ exit = "1" /\ child = "not_started")
    /\ [][InvalidCustom \/ ~startswith(model_id, custom_prefix) => environ' = environ]_vars

C37_Witness ==
    /\ InvalidCustom
    /\ pc = "exited"
    /\ exit = "1"

\* The run saves after a normal end of the child.
SaveAsked == model_info /= <<>> \/ env_is(environ, "REDUX_SAVE_CONVERSATIONS", <<"1">>)

\* C38: at most one conversation file is written, and only after the child has
\* ended; after a normal end it is written iff a custom model is configured or
\* REDUX_SAVE_CONVERSATIONS is 1 and run returns the child's code; after a
\* keyboard interrupt it is written iff a custom model is configured and run
\* returns 130; after another exception nothing is written and run returns 1.
C38_SavedOnceAfterChild ==
    /\ saved <= 1
    /\ saved > 0 => child = "ended"
    /\ pc = "returned" =>
           CASE exit = "130" -> (saved = 1 <=> model_info /= <<>>)
             [] exit = "1" -> saved = 0
             [] OTHER -> exit = returncode /\ (saved = 1 <=> SaveAsked)

\* C39: parse_custom_model returns None exactly for a string that does not
\* start with 'custom:' or has no ':' after it; otherwise region is the text up
\* to the next ':', actual_model_id is all the text after it, and
\* 'custom:' + region + ':' + actual_model_id is the string, as is full_id.
C39_ParseSplitsAtFirstColon ==
    LET parsed == parse_custom_model(model_id)
    IN  /\ parsed = <<>> <=>
               (~startswith(model_id, custom_prefix)
                    \/ ":" \notin Elems(from(model_id, PrefixLen)))
        /\ parsed /= <<>> =>
               /\ ":" \notin Elems(parsed[1].region)
               /\ custom_prefix \o parsed[1].region \o <<":">> \o parsed[1].actual_model_id
                      = model_id
               /\ parsed[1].full_id = model_id
        /\ (pc /= "rx_args" /\ startswith(model_id, custom_prefix)) =>
               model_info = parsed

\* A model id whose actual_model_id holds a colon has been parsed.
C39_Witness ==
    /\ pc = "rx_binary"
    /\ model_info /= <<>>
    /\ ":" \in Elems(model_info[1].actual_model_id)
    /\ model_info[1].region /= <<>>


====
